---- MODULE Spec2Model ----
(***************************************************************************)
(* Model of go-stream.                                                     *)
(*   BloomFilter     (membership, src/bloom_filter.go lines 1-177)         *)
(*   CountMinSketch  (frequency,  src/bloom_filter.go lines 179-355)       *)
(* A small heap of pointer variables holds the structures; every exported  *)
(* constructor and mutating method is one action.  The read-only queries   *)
(* TestBytes and EstimateBytes are operators over a structure.             *)
(*   Spec             the structures and their methods                     *)
(*   SpecByError      the error-bound constructors                         *)
(*   SpecCollect      the collectors applied to a Sequence                 *)
(*   SpecInput        NewFileLineStream and its runs (src/input.go)        *)
(*   SpecTake         Take (src/stream.go)                                 *)
(*   SpecStage        Filter, Map, FlatMap, Distinct (src/stream.go)       *)
(*   SpecOverlap      two runs at once over one NewFileLineStream          *)
(***************************************************************************)
EXTENDS Integers, Sequences, FiniteSets, TLC

(***************************************************************************)
(* Bounds of the model.                                                    *)
(***************************************************************************)
\* Go's uint64 wraps at 2^64.  The fields added, total and the counters of
\* the table wrap the same way at 2^UintBits, a width at which a few calls
\* reach the wrap.
UintBits == 2
\* No structure receives more than MaxTotal units of history (own calls
\* plus merged-in history) between two Resets.
MaxTotal == 4

Uint64Mod == 2 ^ UintBits
MaxUint64 == Uint64Mod - 1

\* Pointer variables of the caller (left and right), both *BloomFilter or
\* both *CountMinSketch.
Refs == {1, 2}

\* Keys, as byte strings: "a" and "i".
KeyA == <<97>>
KeyI == <<105>>
Keys == {KeyA, KeyI}

\* Arguments offered to the constructors.
BitSizes == {0, 8, 75}
HashFuncsArgs == {-1, 1, 2}
WidthArgs == {-1, 2, 3}
DepthArgs == {0, 1, 2}
\* count arguments offered to AddBytes.
CountArgs == {0, 1, 2, MaxUint64}

(***************************************************************************)
(* Errors.                                                                 *)
(***************************************************************************)
NoErr == "nil"
errInvalidBitSize == "bitSize must be > 0"
errInvalidHashFuncs == "hashFuncs must be > 0"
errNilBloomFilter == "bloom filter is nil"
errIncompatibleBloomFilter == "bloom filters are incompatible"
errInvalidWidth == "width must be > 0"
errInvalidDepth == "depth must be > 0"
errNilCountMinSketch == "count-min sketch is nil"
errIncompatibleCMS == "count-min sketches are incompatible"

(***************************************************************************)
(* hash/fnv New64a over 64-bit values held as four 16-bit limbs, least     *)
(* significant limb first.                                                 *)
(***************************************************************************)
LimbBase == 65536
\* 14695981039346656037 = 0xcbf29ce484222325
fnvOffset64 == <<8997, 33826, 40164, 52210>>
\* 1099511628211 = 0x00000100000001b3
fnvPrime64 == <<435, 0, 256, 0>>

RECURSIVE XorBits(_, _, _)
\* bitwise exclusive or of the n low bits of a and b
XorBits(a, b, n) ==
    IF n = 0 THEN 0
    ELSE ((a + b) % 2) + 2 * XorBits(a \div 2, b \div 2, n - 1)

\* h ^= uint64(c) for a byte c
XorByte(h, c) ==
    [h EXCEPT ![1] = (h[1] \div 256) * 256 + XorBits(h[1] % 256, c, 8)]

\* h *= prime64, modulo 2^64
MulPrime(h) ==
    LET p == fnvPrime64
        c1 == h[1] * p[1]
        c2 == h[1] * p[2] + h[2] * p[1] + (c1 \div LimbBase)
        c3 == h[1] * p[3] + h[2] * p[2] + h[3] * p[1] + (c2 \div LimbBase)
        c4 == h[1] * p[4] + h[2] * p[3] + h[3] * p[2] + h[4] * p[1]
                + (c3 \div LimbBase)
    IN  <<c1 % LimbBase, c2 % LimbBase, c3 % LimbBase, c4 % LimbBase>>

RECURSIVE fnvWrite(_, _)
\* (*sum64a).Write: for each byte, xor then multiply
fnvWrite(h, data) ==
    IF data = <<>> THEN h
    ELSE fnvWrite(MulPrime(XorByte(h, Head(data))), Tail(data))

RECURSIVE PutUint64(_, _)
\* binary.LittleEndian.PutUint64: the n low bytes of v, lowest first
PutUint64(v, n) ==
    IF n = 0 THEN <<>>
    ELSE <<v % 256>> \o PutUint64(v \div 256, n - 1)

\* hashRowKey: FNV-1a of the 8-byte round prefix followed by the key
hashRowKey(key, row) ==
    fnvWrite(fnvWrite(fnvOffset64, PutUint64(row, 8)), key)

\* h % uint64(n) for 0 < n < 2^15
ModU64(h, n) ==
    LET r4 == h[4] % n
        r3 == (r4 * LimbBase + h[3]) % n
        r2 == (r3 * LimbBase + h[2]) % n
    IN  (r2 * LimbBase + h[1]) % n

\* The hash of every key and round the model uses, evaluated once.
MaxRound ==
    CHOOSE m \in HashFuncsArgs \cup DepthArgs :
        \A n \in HashFuncsArgs \cup DepthArgs : n <= m
HashTable == [k \in Keys |-> [r \in 0..(MaxRound - 1) |-> hashRowKey(k, r)]]

(***************************************************************************)
(* BloomFilter.  A word of bits is the set of the offsets of its set bits: *)
(* uint64(1) << offset is {offset}, | is union, & is intersection.         *)
(***************************************************************************)
Nil == [kind |-> "nil"]

\* NewBloomFilter that rounds the number of words down
NewBloomFilter_floorWords(bitSize, hashFuncs) ==
    IF bitSize <= 0 THEN [ptr |-> Nil, err |-> errInvalidBitSize]
    ELSE IF hashFuncs <= 0 THEN [ptr |-> Nil, err |-> errInvalidHashFuncs]
    ELSE LET wordCount == bitSize \div 64
         IN  [ptr |-> [kind |-> "bloom",
                       bitSize |-> bitSize,
                       hashFuncs |-> hashFuncs,
                       bits |-> [w \in 0..(wordCount - 1) |-> {}],
                       added |-> 0],
              err |-> NoErr]

NewBloomFilter(bitSize, hashFuncs) ==
    IF bitSize <= 0 THEN [ptr |-> Nil, err |-> errInvalidBitSize]
    ELSE IF hashFuncs <= 0 THEN [ptr |-> Nil, err |-> errInvalidHashFuncs]
    ELSE LET wordCount == (bitSize + 63) \div 64
         IN  [ptr |-> [kind |-> "bloom",
                       bitSize |-> bitSize,
                       hashFuncs |-> hashFuncs,
                       bits |-> [w \in 0..(wordCount - 1) |-> {}],
                       added |-> 0],
              err |-> NoErr]

\* hashIndex that reduces modulo the capacity of the words, not bitSize
hashIndex_modCapacity(bf, key, hashRound) ==
    ModU64(HashTable[key][hashRound], 64 * ((bf.bitSize + 63) \div 64))

hashIndex(bf, key, hashRound) ==
    ModU64(HashTable[key][hashRound], bf.bitSize)

\* setBit with = in place of |=: the word keeps only the new bit
setBit_assign(bf, index) ==
    LET word == index \div 64
        offset == index % 64
    IN  [bf EXCEPT !.bits[word] = {offset}]

setBit(bf, index) ==
    LET word == index \div 64
        offset == index % 64
    IN  [bf EXCEPT !.bits[word] = @ \cup {offset}]

hasBit(bf, index) ==
    LET word == index \div 64
        offset == index % 64
    IN  (bf.bits[word] \cap {offset}) # {}

RECURSIVE BloomFilter_AddLoop(_, _, _)
\* the loop of AddBytes, from round i on
BloomFilter_AddLoop(bf, key, i) ==
    IF i < bf.hashFuncs
    THEN BloomFilter_AddLoop(setBit(bf, hashIndex(bf, key, i)), key, i + 1)
    ELSE bf

BloomFilter_AddBytes(bf, key) ==
    LET set == BloomFilter_AddLoop(bf, key, 0)
    IN  [set EXCEPT !.added = (@ + 1) % Uint64Mod]

RECURSIVE BloomFilter_TestLoop(_, _, _)
\* the loop of TestBytes, from round i on
BloomFilter_TestLoop(bf, key, i) ==
    IF i < bf.hashFuncs
    THEN IF ~hasBit(bf, hashIndex(bf, key, i)) THEN FALSE
         ELSE BloomFilter_TestLoop(bf, key, i + 1)
    ELSE TRUE

BloomFilter_TestBytes(bf, key) == BloomFilter_TestLoop(bf, key, 0)

\* BloomFilter.Merge with = in place of |=: the receiver's own bits are lost
BloomFilter_Merge_assign(bf, other) ==
    IF bf = Nil \/ other = Nil
    THEN [recv |-> bf, other |-> other, err |-> errNilBloomFilter]
    ELSE IF bf.bitSize # other.bitSize \/ bf.hashFuncs # other.hashFuncs
    THEN [recv |-> bf, other |-> other, err |-> errIncompatibleBloomFilter]
    ELSE [recv |-> [bf EXCEPT
                      !.bits = [i \in DOMAIN bf.bits |-> other.bits[i]],
                      !.added = (@ + other.added) % Uint64Mod],
          other |-> other,
          err |-> NoErr]

\* BloomFilter.Merge that compares bitSize only
BloomFilter_Merge_bitSizeOnly(bf, other) ==
    IF bf = Nil \/ other = Nil
    THEN [recv |-> bf, other |-> other, err |-> errNilBloomFilter]
    ELSE IF bf.bitSize # other.bitSize
    THEN [recv |-> bf, other |-> other, err |-> errIncompatibleBloomFilter]
    ELSE [recv |-> [bf EXCEPT
                      !.bits = [i \in DOMAIN bf.bits |->
                                   bf.bits[i] \cup other.bits[i]],
                      !.added = (@ + other.added) % Uint64Mod],
          other |-> other,
          err |-> NoErr]

\* Merge returns the receiver and the operand as the call leaves them, and
\* the error.  The code writes through bf only.
BloomFilter_Merge(bf, other) ==
    IF bf = Nil \/ other = Nil
    THEN [recv |-> bf, other |-> other, err |-> errNilBloomFilter]
    ELSE IF bf.bitSize # other.bitSize \/ bf.hashFuncs # other.hashFuncs
    THEN [recv |-> bf, other |-> other, err |-> errIncompatibleBloomFilter]
    ELSE [recv |-> [bf EXCEPT
                      !.bits = [i \in DOMAIN bf.bits |->
                                   bf.bits[i] \cup other.bits[i]],
                      !.added = (@ + other.added) % Uint64Mod],
          other |-> other,
          err |-> NoErr]

BloomFilter_Reset(bf) ==
    [bf EXCEPT !.bits = [i \in DOMAIN bf.bits |-> {}], !.added = 0]

(***************************************************************************)
(* CountMinSketch.                                                         *)
(***************************************************************************)
\* NewCountMinSketch that rejects depth < 0 only
NewCountMinSketch_allowZeroDepth(width, depth) ==
    IF width <= 0 THEN [ptr |-> Nil, err |-> errInvalidWidth]
    ELSE IF depth < 0 THEN [ptr |-> Nil, err |-> errInvalidDepth]
    ELSE [ptr |-> [kind |-> "cms",
                   width |-> width,
                   depth |-> depth,
                   table |-> [row \in 0..(depth - 1) |->
                                 [col \in 0..(width - 1) |-> 0]],
                   total |-> 0],
          err |-> NoErr]

NewCountMinSketch(width, depth) ==
    IF width <= 0 THEN [ptr |-> Nil, err |-> errInvalidWidth]
    ELSE IF depth <= 0 THEN [ptr |-> Nil, err |-> errInvalidDepth]
    ELSE [ptr |-> [kind |-> "cms",
                   width |-> width,
                   depth |-> depth,
                   table |-> [row \in 0..(depth - 1) |->
                                 [col \in 0..(width - 1) |-> 0]],
                   total |-> 0],
          err |-> NoErr]

column(cms, key, row) == ModU64(HashTable[key][row], cms.width)

RECURSIVE CountMinSketch_AddLoop(_, _, _, _)
\* the loop of AddBytes, from the given row on
CountMinSketch_AddLoop(cms, key, count, row) ==
    IF row < cms.depth
    THEN LET col == column(cms, key, row)
         IN  CountMinSketch_AddLoop(
                 [cms EXCEPT !.table[row][col] = (@ + count) % Uint64Mod],
                 key, count, row + 1)
    ELSE cms

\* AddBytes that counts a call with count 0 as one occurrence
CountMinSketch_AddBytes_zeroAsOne(cms, key, count) ==
    LET n == IF count = 0 THEN 1 ELSE count
        added == CountMinSketch_AddLoop(cms, key, n, 0)
    IN  [added EXCEPT !.total = (@ + n) % Uint64Mod]

CountMinSketch_AddBytes(cms, key, count) ==
    IF count = 0 THEN cms
    ELSE LET added == CountMinSketch_AddLoop(cms, key, count, 0)
         IN  [added EXCEPT !.total = (@ + count) % Uint64Mod]

RECURSIVE CountMinSketch_EstimateLoop(_, _, _, _)
\* the loop of EstimateBytes, from the given row on
CountMinSketch_EstimateLoop(cms, key, min, row) ==
    IF row < cms.depth
    THEN LET v == cms.table[row][column(cms, key, row)]
         IN  CountMinSketch_EstimateLoop(cms, key,
                 IF v < min THEN v ELSE min, row + 1)
    ELSE min

CountMinSketch_EstimateBytes(cms, key) ==
    CountMinSketch_EstimateLoop(cms, key, MaxUint64, 0)

\* CountMinSketch.Merge that forgets cms.total += other.total
CountMinSketch_Merge_noTotal(cms, other) ==
    IF cms = Nil \/ other = Nil
    THEN [recv |-> cms, other |-> other, err |-> errNilCountMinSketch]
    ELSE IF cms.width # other.width \/ cms.depth # other.depth
    THEN [recv |-> cms, other |-> other, err |-> errIncompatibleCMS]
    ELSE [recv |-> [cms EXCEPT
                      !.table = [row \in 0..(cms.depth - 1) |->
                                  [col \in 0..(cms.width - 1) |->
                                     (cms.table[row][col]
                                        + other.table[row][col]) % Uint64Mod]]],
          other |-> other,
          err |-> NoErr]

\* CountMinSketch.Merge that moves the operand's counts: it zeroes the
\* operand after adding it
CountMinSketch_Merge_drain(cms, other) ==
    IF cms = Nil \/ other = Nil
    THEN [recv |-> cms, other |-> other, err |-> errNilCountMinSketch]
    ELSE IF cms.width # other.width \/ cms.depth # other.depth
    THEN [recv |-> cms, other |-> other, err |-> errIncompatibleCMS]
    ELSE [recv |-> [cms EXCEPT
                      !.table = [row \in 0..(cms.depth - 1) |->
                                  [col \in 0..(cms.width - 1) |->
                                     (cms.table[row][col]
                                        + other.table[row][col]) % Uint64Mod]],
                      !.total = (@ + other.total) % Uint64Mod],
          other |-> [other EXCEPT
                      !.table = [row \in 0..(other.depth - 1) |->
                                  [col \in 0..(other.width - 1) |-> 0]],
                      !.total = 0],
          err |-> NoErr]

\* CountMinSketch.Merge that compares dimensions first and takes a nil
\* sketch for one of other dimensions
CountMinSketch_Merge_dimsFirst(cms, other) ==
    IF cms = Nil \/ other = Nil
    THEN [recv |-> cms, other |-> other, err |-> errIncompatibleCMS]
    ELSE IF cms.width # other.width \/ cms.depth # other.depth
    THEN [recv |-> cms, other |-> other, err |-> errIncompatibleCMS]
    ELSE [recv |-> [cms EXCEPT
                      !.table = [row \in 0..(cms.depth - 1) |->
                                  [col \in 0..(cms.width - 1) |->
                                     (cms.table[row][col]
                                        + other.table[row][col]) % Uint64Mod]],
                      !.total = (@ + other.total) % Uint64Mod],
          other |-> other,
          err |-> NoErr]

\* Merge returns the receiver and the operand as the call leaves them, and
\* the error.  The code writes through cms only.
CountMinSketch_Merge(cms, other) ==
    IF cms = Nil \/ other = Nil
    THEN [recv |-> cms, other |-> other, err |-> errNilCountMinSketch]
    ELSE IF cms.width # other.width \/ cms.depth # other.depth
    THEN [recv |-> cms, other |-> other, err |-> errIncompatibleCMS]
    ELSE [recv |-> [cms EXCEPT
                      !.table = [row \in 0..(cms.depth - 1) |->
                                  [col \in 0..(cms.width - 1) |->
                                     (cms.table[row][col]
                                        + other.table[row][col]) % Uint64Mod]],
                      !.total = (@ + other.total) % Uint64Mod],
          other |-> other,
          err |-> NoErr]

\* CountMinSketch.Reset whose loop starts at row 1
CountMinSketch_Reset_fromRow1(cms) ==
    [cms EXCEPT !.table = [row \in 0..(cms.depth - 1) |->
                             IF row >= 1
                             THEN [col \in 0..(cms.width - 1) |-> 0]
                             ELSE cms.table[row]],
                !.total = 0]

CountMinSketch_Reset(cms) ==
    [cms EXCEPT !.table = [row \in 0..(cms.depth - 1) |->
                             [col \in 0..(cms.width - 1) |-> 0]],
                !.total = 0]

(***************************************************************************)
(* State.                                                                  *)
(*   heap  the structure each pointer variable refers to, or Nil           *)
(*   hist  per pointer, what the structure has received since its          *)
(*         construction or last Reset (history, not program state):        *)
(*           cnt     per key, the exact number of inserts / sum of counts, *)
(*                   the histories of merged operands included             *)
(*           ops     the exact number of Insert calls / sum of the count   *)
(*                   arguments, plus the AddedCount / TotalCount each      *)
(*                   merged operand reported when it was merged            *)
(*           merged  whether a Merge has succeeded on it                   *)
(*   last  the most recent call: its name, receiver, operand, integer      *)
(*         arguments and returned error; for Reset, n1 is the AddedCount / *)
(*         TotalCount the receiver held when it was called; for the        *)
(*         sketch's AddBytes, n1 is count                                  *)
(*   made  one call of an error-bound constructor and what it returned     *)
(*   coll  one collector applied to a Sequence                             *)
(*   inp   a file-backed Sequence and the runs over it                     *)
(*   tk    one use of Take                                                 *)
(*   sg    one lazy stage (Filter, Map, FlatMap, Distinct) and its runs    *)
(*   ov    two goroutines ranging over the Seq of one Input                *)
(* Each specification uses its own variables and holds the others at       *)
(* Unused; made, coll, inp, tk, sg and ov are described where they are     *)
(* used.                                                                   *)
(***************************************************************************)
VARIABLES heap, hist, last, made, coll, inp, tk, sg, ov

vars == <<heap, hist, last, made, coll, inp, tk, sg, ov>>

\* what the structure operations leave alone
otherVars == <<made, coll, inp, tk, sg, ov>>

\* what the error-bound constructors, the collectors, the file streams,
\* Take, the lazy stages and the overlapping runs leave alone
exceptMade == <<heap, hist, last, coll, inp, tk, sg, ov>>

exceptColl == <<heap, hist, last, made, inp, tk, sg, ov>>

exceptInp == <<heap, hist, last, made, coll, tk, sg, ov>>

exceptTk == <<heap, hist, last, made, coll, inp, sg, ov>>

exceptSg == <<heap, hist, last, made, coll, inp, tk, ov>>

exceptOv == <<heap, hist, last, made, coll, inp, tk, sg>>

\* the value of a variable in a specification that does not use it
Unused == [op |-> "unused"]

NoHist == [cnt |-> [k \in Keys |-> 0], ops |-> 0, merged |-> FALSE]

RECURSIVE SumOver(_, _)
\* the sum of f over the keys of S
SumOver(f, S) ==
    IF S = {} THEN 0
    ELSE LET k == CHOOSE x \in S : TRUE
         IN  f[k] + SumOver(f, S \ {k})

Received(r) == SumOver(hist[r].cnt, Keys)

\* The heap after a Merge of pointer a with pointer b.  When a = b the two
\* name one structure, which is left as the writes through the receiver
\* leave it.
AfterMerge(a, b, res) ==
    [r \in Refs |-> IF r = a THEN res.recv
                    ELSE IF r = b THEN res.other
                    ELSE heap[r]]

Call(op, recv, other, n1, n2, err) ==
    [op |-> op, recv |-> recv, other |-> other, n1 |-> n1, n2 |-> n2,
     err |-> err]

NoStructures ==
    /\ heap = [r \in Refs |-> Nil]
    /\ hist = [r \in Refs |-> NoHist]
    /\ last = Call("none", 0, 0, 0, 0, NoErr)

Init ==
    /\ NoStructures
    /\ sg = Unused
    /\ ov = Unused
    /\ made = Unused
    /\ coll = Unused
    /\ inp = Unused
    /\ tk = Unused

\* r, err := NewBloomFilter(bitSize, hashFuncs), for a pointer variable that
\* holds no structure yet
Do_NewBloomFilter(r, bitSize, hashFuncs) ==
    LET res == NewBloomFilter(bitSize, hashFuncs)
    IN  /\ heap[r] = Nil
        /\ \A q \in Refs : heap[q].kind \in {"nil", "bloom"}
        /\ heap' = [heap EXCEPT ![r] = res.ptr]
        /\ hist' = [hist EXCEPT ![r] = NoHist]
        /\ last' = Call("NewBloomFilter", r, 0, bitSize, hashFuncs, res.err)
        /\ UNCHANGED otherVars

\* heap[r].AddBytes(key), also reached through AddString
Do_BloomAddBytes(r, key) ==
    /\ heap[r].kind = "bloom"
    /\ Received(r) + 1 <= MaxTotal
    /\ heap' = [heap EXCEPT ![r] = BloomFilter_AddBytes(@, key)]
    /\ hist' = [hist EXCEPT ![r].cnt[key] = @ + 1, ![r].ops = @ + 1]
    /\ last' = Call("BloomFilter.AddBytes", r, 0, 0, 0, NoErr)
    /\ UNCHANGED otherVars

\* err := heap[a].Merge(heap[b]); a nil pointer is a nil *BloomFilter
Do_BloomMerge(a, b) ==
    LET res == BloomFilter_Merge(heap[a], heap[b])
    IN  /\ heap[a].kind \in {"bloom", "nil"}
        /\ heap[b].kind \in {"bloom", "nil"}
        /\ res.err = NoErr => Received(a) + Received(b) <= MaxTotal
        /\ heap' = AfterMerge(a, b, res)
        /\ hist' = IF res.err = NoErr
                   THEN [hist EXCEPT
                           ![a].cnt = [k \in Keys |->
                                          hist[a].cnt[k] + hist[b].cnt[k]],
                           ![a].ops = @ + heap[b].added,
                           ![a].merged = TRUE]
                   ELSE hist
        /\ last' = Call("BloomFilter.Merge", a, b, 0, 0, res.err)
        /\ UNCHANGED otherVars

\* heap[r].Reset()
Do_BloomReset(r) ==
    /\ heap[r].kind = "bloom"
    /\ heap' = [heap EXCEPT ![r] = BloomFilter_Reset(@)]
    /\ hist' = [hist EXCEPT ![r] = NoHist]
    /\ last' = Call("BloomFilter.Reset", r, 0, heap[r].added, 0, NoErr)
    /\ UNCHANGED otherVars

\* r, err := NewCountMinSketch(width, depth), for a pointer variable that
\* holds no structure yet
Do_NewCountMinSketch(r, width, depth) ==
    LET res == NewCountMinSketch(width, depth)
    IN  /\ heap[r] = Nil
        /\ \A q \in Refs : heap[q].kind \in {"nil", "cms"}
        /\ heap' = [heap EXCEPT ![r] = res.ptr]
        /\ hist' = [hist EXCEPT ![r] = NoHist]
        /\ last' = Call("NewCountMinSketch", r, 0, width, depth, res.err)
        /\ UNCHANGED otherVars

\* heap[r].AddBytes(key, count), also reached through AddString
Do_CmsAddBytes(r, key, count) ==
    /\ heap[r].kind = "cms"
    /\ Received(r) + count <= MaxTotal
    /\ heap' = [heap EXCEPT ![r] = CountMinSketch_AddBytes(@, key, count)]
    /\ hist' = [hist EXCEPT ![r].cnt[key] = @ + count, ![r].ops = @ + count]
    /\ last' = Call("CountMinSketch.AddBytes", r, 0, count, 0, NoErr)
    /\ UNCHANGED otherVars

\* err := heap[a].Merge(heap[b]); a nil pointer is a nil *CountMinSketch
Do_CmsMerge(a, b) ==
    LET res == CountMinSketch_Merge(heap[a], heap[b])
    IN  /\ heap[a].kind \in {"cms", "nil"}
        /\ heap[b].kind \in {"cms", "nil"}
        /\ res.err = NoErr => Received(a) + Received(b) <= MaxTotal
        /\ heap' = AfterMerge(a, b, res)
        /\ hist' = IF res.err = NoErr
                   THEN [hist EXCEPT
                           ![a].cnt = [k \in Keys |->
                                          hist[a].cnt[k] + hist[b].cnt[k]],
                           ![a].ops = @ + heap[b].total,
                           ![a].merged = TRUE]
                   ELSE hist
        /\ last' = Call("CountMinSketch.Merge", a, b, 0, 0, res.err)
        /\ UNCHANGED otherVars

\* heap[r].Reset()
Do_CmsReset(r) ==
    /\ heap[r].kind = "cms"
    /\ heap' = [heap EXCEPT ![r] = CountMinSketch_Reset(@)]
    /\ hist' = [hist EXCEPT ![r] = NoHist]
    /\ last' = Call("CountMinSketch.Reset", r, 0, heap[r].total, 0, NoErr)
    /\ UNCHANGED otherVars

Next ==
    \/ \E r \in Refs, bitSize \in BitSizes, hashFuncs \in HashFuncsArgs :
           Do_NewBloomFilter(r, bitSize, hashFuncs)
    \/ \E r \in Refs, key \in Keys : Do_BloomAddBytes(r, key)
    \/ \E a \in Refs, b \in Refs : Do_BloomMerge(a, b)
    \/ \E r \in Refs : Do_BloomReset(r)
    \/ \E r \in Refs, width \in WidthArgs, depth \in DepthArgs :
           Do_NewCountMinSketch(r, width, depth)
    \/ \E r \in Refs, key \in Keys, count \in CountArgs :
           Do_CmsAddBytes(r, key, count)
    \/ \E a \in Refs, b \in Refs : Do_CmsMerge(a, b)
    \/ \E r \in Refs : Do_CmsReset(r)

Spec == Init /\ [][Next]_vars

(***************************************************************************)
(* The error-bound constructors.                                           *)
(*                                                                         *)
(* A float64 is NaN, an infinity, or a finite value held as a whole number *)
(* of units of 1/Scale.  The arithmetic of the two constructors is done on *)
(* the real values of their expressions; math.Log is tabulated at the      *)
(* arguments the offered inputs give it.  int is narrowed to IntBits bits, *)
(* as the counters are to UintBits.                                        *)
(***************************************************************************)
IntBits == 15

MaxInt == 2 ^ (IntBits - 1) - 1

MinInt == -(2 ^ (IntBits - 1))

Scale == 10000

Fin(v) == [cls |-> "fin", v |-> v]

NaN == [cls |-> "nan", v |-> 0]

PosInf == [cls |-> "+inf", v |-> 0]

NegInf == [cls |-> "-inf", v |-> 0]

\* math.E, math.Ln2 and math.Ln2 * math.Ln2, in units
mathE == 27183

mathLn2 == 6931

Ln2Sq == 4805

errInvalidExpectedItems == "expectedItems must be > 0"

errInvalidFalsePositiveRate == "falsePositiveRate must be in (0, 1)"

errInvalidEpsilon == "epsilon must be > 0"

errInvalidDelta == "delta must be in (0, 1)"

\* make panics when the length is negative or the slice does not fit the
\* address space
makeslicePanic == "panic: runtime error: makeslice: len out of range"

MaxAlloc == MaxInt

\* x <= 0 and x >= 1 between float64 values: false when x is NaN
FLeq0(x) == x.cls = "-inf" \/ (x.cls = "fin" /\ x.v <= 0)

FGeq1(x) == x.cls = "+inf" \/ (x.cls = "fin" /\ x.v >= Scale)

FNeg(x) ==
    CASE x.cls = "fin" -> Fin(-x.v)
      [] x.cls = "+inf" -> NegInf
      [] x.cls = "-inf" -> PosInf
      [] OTHER -> NaN

\* n * x for an integer n > 0
FMulInt(n, x) == IF x.cls = "fin" THEN Fin(n * x.v) ELSE x

\* 1 / x
FInv(x) ==
    CASE x.cls = "nan" -> NaN
      [] x.cls \in {"+inf", "-inf"} -> Fin(0)
      [] x.cls = "fin" /\ x.v = 0 -> PosInf
      [] x.cls = "fin" /\ x.v > 0 -> Fin((Scale * Scale) \div x.v)
      [] OTHER -> Fin(-((Scale * Scale) \div (-x.v)))

\* ln(v / Scale) in units, at the finite positive arguments that occur
LogTable ==
    (1 :> -92103) @@ (100 :> -46052) @@ (5000 :> -6931) @@ (9999 :> -1)
    @@ (10000 :> 0) @@ (10001 :> 1) @@ (15000 :> 4055) @@ (20000 :> 6931)
    @@ (1000000 :> 46052) @@ (100000000 :> 92103)

\* math.Log
Log(x) ==
    CASE x.cls = "nan" -> NaN
      [] x.cls = "-inf" -> NaN
      [] x.cls = "+inf" -> PosInf
      [] x.cls = "fin" /\ x.v < 0 -> NaN
      [] x.cls = "fin" /\ x.v = 0 -> NegInf
      [] OTHER -> Fin(LogTable[x.v])

\* the least integer >= a / b, for b > 0
CeilDiv(a, b) == -((-a) \div b)

\* math.Ceil(x / y)
CeilQuo(x, y) ==
    IF x.cls = "nan" \/ y.cls = "nan" THEN NaN
    ELSE IF x.cls = "fin" /\ y.cls = "fin"
    THEN IF y.v = 0
         THEN IF x.v = 0 THEN NaN ELSE IF x.v > 0 THEN PosInf ELSE NegInf
         ELSE IF y.v > 0
         THEN Fin(CeilDiv(x.v, y.v) * Scale)
         ELSE Fin(CeilDiv(-x.v, -y.v) * Scale)
    ELSE IF x.cls = "fin" THEN Fin(0)
    ELSE IF y.cls # "fin" THEN NaN
    ELSE IF (x.cls = "+inf") = (y.v >= 0) THEN PosInf ELSE NegInf

\* The builds differ in what int(x) gives for a float64 that int cannot
\* hold (the language leaves it to the implementation): amd64 gives the
\* least int for every such x; arm64 gives 0 for NaN and the nearest int
\* otherwise.
Builds == {"amd64", "arm64"}

\* int(x) of a float64 holding a whole number, NaN or an infinity
toInt(x, build) ==
    IF x.cls = "fin" /\ x.v \div Scale >= MinInt /\ x.v \div Scale <= MaxInt
    THEN x.v \div Scale
    ELSE IF build = "amd64" THEN MinInt
    ELSE IF x.cls = "nan" THEN 0
    ELSE IF x.cls = "+inf" \/ (x.cls = "fin" /\ x.v > 0) THEN MaxInt
    ELSE MinInt

\* NewBloomFilterByError whose range test lets falsePositiveRate = 1 through
NewBloomFilterByError_rateAbove1(expectedItems, falsePositiveRate, build) ==
    IF expectedItems <= 0
    THEN [ptr |-> Nil, err |-> errInvalidExpectedItems]
    ELSE IF FLeq0(falsePositiveRate)
            \/ (FGeq1(falsePositiveRate) /\ falsePositiveRate # Fin(Scale))
    THEN [ptr |-> Nil, err |-> errInvalidFalsePositiveRate]
    ELSE LET p == falsePositiveRate
             m == toInt(CeilQuo(FNeg(FMulInt(expectedItems, Log(p))),
                                Fin(Ln2Sq)), build)
             k0 == toInt(CeilQuo(Fin(m * mathLn2),
                                 Fin(expectedItems * Scale)), build)
             k == IF k0 <= 0 THEN 1 ELSE k0
         IN  IF m > 0 /\ k > 0 /\ m + 63 > MaxInt
             THEN [ptr |-> Nil, err |-> makeslicePanic]
             ELSE NewBloomFilter(m, k)

NewBloomFilterByError(expectedItems, falsePositiveRate, build) ==
    IF expectedItems <= 0
    THEN [ptr |-> Nil, err |-> errInvalidExpectedItems]
    ELSE IF FLeq0(falsePositiveRate) \/ FGeq1(falsePositiveRate)
    THEN [ptr |-> Nil, err |-> errInvalidFalsePositiveRate]
    ELSE LET p == falsePositiveRate
             \* m := int(math.Ceil((-n * math.Log(p)) / (ln2 * ln2)))
             m == toInt(CeilQuo(FNeg(FMulInt(expectedItems, Log(p))),
                                Fin(Ln2Sq)), build)
             \* k := int(math.Ceil((float64(m) / n) * ln2))
             k0 == toInt(CeilQuo(Fin(m * mathLn2),
                                 Fin(expectedItems * Scale)), build)
             k == IF k0 <= 0 THEN 1 ELSE k0
         IN  \* NewBloomFilter(m, k); bitSize + 63 wraps below 0 when
             \* bitSize is within 63 of the greatest int
             IF m > 0 /\ k > 0 /\ m + 63 > MaxInt
             THEN [ptr |-> Nil, err |-> makeslicePanic]
             ELSE NewBloomFilter(m, k)

NewCountMinSketchByError(epsilon, delta, build) ==
    IF FLeq0(epsilon)
    THEN [ptr |-> Nil, err |-> errInvalidEpsilon]
    ELSE IF FLeq0(delta) \/ FGeq1(delta)
    THEN [ptr |-> Nil, err |-> errInvalidDelta]
    ELSE LET \* width := int(math.Ceil(math.E / epsilon))
             width == toInt(CeilQuo(Fin(mathE), epsilon), build)
             \* depth := int(math.Ceil(math.Log(1 / delta)))
             depth == toInt(CeilQuo(Log(FInv(delta)), Fin(Scale)), build)
         IN  \* NewCountMinSketch(width, depth); a row has 8 bytes per
             \* counter, the table 24 bytes per row
             IF width > 0 /\ depth > 0
                /\ (depth * 24 > MaxAlloc \/ width * 8 > MaxAlloc)
             THEN [ptr |-> Nil, err |-> makeslicePanic]
             ELSE NewCountMinSketch(width, depth)

\* the arguments offered to the error-bound constructors
ExpectedItemsArgs == {-1, 0, 1, 10, 1000, 2000}

FloatArgs ==
    {NaN, NegInf, PosInf, Fin(-5000), Fin(0), Fin(1), Fin(100), Fin(5000),
     Fin(9999), Fin(Scale), Fin(15000)}

\* made: the build, and the last call of an error-bound constructor with
\* its arguments and what it returned
NoCall(build) == [op |-> "none", build |-> build]

ByErrorInit ==
    /\ NoStructures
    /\ sg = Unused
    /\ ov = Unused
    /\ made \in {NoCall(build) : build \in Builds}
    /\ coll = Unused
    /\ inp = Unused
    /\ tk = Unused

\* bf, err := NewBloomFilterByError(expectedItems, falsePositiveRate)
Do_NewBloomFilterByError(expectedItems, falsePositiveRate) ==
    LET res == NewBloomFilterByError(expectedItems, falsePositiveRate,
                                     made.build)
    IN  /\ made' = [op |-> "NewBloomFilterByError", build |-> made.build,
                    n |-> expectedItems, f1 |-> falsePositiveRate,
                    f2 |-> NaN, ptr |-> res.ptr, err |-> res.err]
        /\ UNCHANGED exceptMade

\* cms, err := NewCountMinSketchByError(epsilon, delta)
Do_NewCountMinSketchByError(epsilon, delta) ==
    LET res == NewCountMinSketchByError(epsilon, delta, made.build)
    IN  /\ made' = [op |-> "NewCountMinSketchByError", build |-> made.build,
                    n |-> 0, f1 |-> epsilon, f2 |-> delta,
                    ptr |-> res.ptr, err |-> res.err]
        /\ UNCHANGED exceptMade

ByErrorNext ==
    \/ \E expectedItems \in ExpectedItemsArgs, falsePositiveRate \in FloatArgs :
           Do_NewBloomFilterByError(expectedItems, falsePositiveRate)
    \/ \E epsilon \in FloatArgs, delta \in FloatArgs :
           Do_NewCountMinSketchByError(epsilon, delta)

SpecByError == ByErrorInit /\ [][ByErrorNext]_vars

(***************************************************************************)
(* The stream collectors: BloomFilterCollect, BloomFilterCollectByError,   *)
(* CountMinSketchCollect and CountMinSketchCollectByError applied to an    *)
(* iter.Seq.                                                               *)
(*                                                                         *)
(* A Sequence is its elements and how it ends: "done" (it returns after    *)
(* the last element), "fail" (it returns after the last element and        *)
(* reports a failure of its own on the side) or "loop" (it yields its      *)
(* elements over and over and never returns; with no element it blocks).   *)
(*                                                                         *)
(* coll: one application of a collector                                     *)
(*   fn, a1, a2, build  the collector, its two construction arguments and  *)
(*                      the build                                          *)
(*   seq, pos           the Sequence and how many of its elements it has   *)
(*                      yielded (in its current round, for "loop")         *)
(*   pc                 "idle" before the call, "draining" inside the      *)
(*                      range loop, "returned" after                       *)
(*   bf                 the structure under construction                   *)
(*   result             the returned Filter / Sketch and Err               *)
(*   runs               how many times the Sequence function was invoked   *)
(*   log                the elements keyFn was called with, in order       *)
(*                      (history, kept for the Sequences that end)         *)
(*   stopped            whether a yield has returned false                 *)
(*   seqDone            whether the Sequence function has returned         *)
(*   seqErr             whether the Sequence reported its own failure      *)
(***************************************************************************)
MaxSeqLen == 4

Elems == {1, 2}

keyFn(e) == IF e = 1 THEN KeyA ELSE KeyI

RECURSIVE SeqsOfLen(_)
SeqsOfLen(n) ==
    IF n = 0 THEN {<<>>}
    ELSE {Append(s, e) : s \in SeqsOfLen(n - 1), e \in Elems}

Seqs ==
    {[items |-> s, end |-> end] :
        s \in UNION {SeqsOfLen(n) : n \in 0..MaxSeqLen},
        end \in {"done", "fail", "loop"}}

\* the collectors offered, with their construction arguments
Collectors ==
    {[fn |-> "BloomFilterCollect", a1 |-> d[1], a2 |-> d[2],
      build |-> "amd64"] : d \in {<<8, 2>>, <<0, 2>>, <<8, -1>>}}
    \cup
    {[fn |-> "CountMinSketchCollect", a1 |-> d[1], a2 |-> d[2],
      build |-> "amd64"] : d \in {<<2, 2>>, <<3, 1>>, <<-1, 2>>, <<2, 0>>}}
    \cup
    {[fn |-> "BloomFilterCollectByError", a1 |-> d[1], a2 |-> d[2],
      build |-> b] :
        d \in {<<1, Fin(5000)>>, <<0, Fin(5000)>>, <<1, Fin(Scale)>>},
        b \in Builds}
    \cup
    {[fn |-> "CountMinSketchCollectByError", a1 |-> d[1], a2 |-> d[2],
      build |-> b] :
        d \in {<<Fin(15000), Fin(5000)>>, <<Fin(0), Fin(5000)>>,
               <<Fin(15000), Fin(Scale)>>, <<PosInf, Fin(5000)>>},
        b \in Builds}

\* the constructor call that opens each collector
Construct(c) ==
    CASE c.fn = "BloomFilterCollect" -> NewBloomFilter(c.a1, c.a2)
      [] c.fn = "BloomFilterCollectByError" ->
             NewBloomFilterByError(c.a1, c.a2, c.build)
      [] c.fn = "CountMinSketchCollect" -> NewCountMinSketch(c.a1, c.a2)
      [] OTHER -> NewCountMinSketchByError(c.a1, c.a2, c.build)

\* a collector that ranges over seq before it looks at the constructor's
\* error
collectBegin_rangeFirst(c) ==
    LET res == Construct(c)
    IN  IF res.err # NoErr
        THEN [c EXCEPT !.pc = "returned", !.runs = @ + 1,
                       !.result = [ptr |-> Nil, err |-> res.err]]
        ELSE [c EXCEPT !.pc = "draining", !.bf = res.ptr, !.runs = @ + 1]

\* The collector up to its loop: it calls the constructor, returns the
\* error at once if there is one, and otherwise starts ranging over seq.
collectBegin(c) ==
    LET res == Construct(c)
    IN  IF res.err # NoErr
        THEN [c EXCEPT !.pc = "returned",
                       !.result = [ptr |-> Nil, err |-> res.err]]
        ELSE [c EXCEPT !.pc = "draining", !.bf = res.ptr, !.runs = @ + 1]

\* the body of the range loop: bf.AddString(keyFn(v)), respectively
\* cms.AddString(keyFn(v), 1)
loopBody(bf, v) ==
    IF bf.kind = "bloom"
    THEN BloomFilter_AddBytes(bf, keyFn(v))
    ELSE CountMinSketch_AddBytes(bf, keyFn(v), 1)

\* a loop that breaks once the structure has received an element
loopContinues_breakAfterFirst(bf) ==
    IF bf.kind = "bloom" THEN bf.added = 0 ELSE bf.total = 0

\* what yield returns to the Sequence: the loop has no break and no return
loopContinues(bf) == TRUE

\* a collector that reports the Sequence's own failure in Err
collectEnd_reportSeqErr(c) ==
    [c EXCEPT !.pc = "returned",
              !.seqDone = TRUE,
              !.seqErr = (c.seq.end = "fail"),
              !.result = IF c.seq.end = "fail"
                         THEN [ptr |-> Nil, err |-> "sequence failed"]
                         ELSE [ptr |-> c.bf, err |-> NoErr]]

\* The Sequence function returns and the collector returns the structure.
collectEnd(c) ==
    [c EXCEPT !.pc = "returned",
              !.seqDone = TRUE,
              !.seqErr = (c.seq.end = "fail"),
              !.result = [ptr |-> c.bf, err |-> NoErr]]

CollectInit ==
    /\ NoStructures
    /\ sg = Unused
    /\ ov = Unused
    /\ made = Unused
    /\ inp = Unused
    /\ tk = Unused
    /\ coll \in {[fn |-> c.fn, a1 |-> c.a1, a2 |-> c.a2, build |-> c.build,
                 seq |-> s, pos |-> 0, pc |-> "idle", bf |-> Nil,
                 result |-> [ptr |-> Nil, err |-> NoErr], runs |-> 0,
                 log |-> <<>>, stopped |-> FALSE, seqDone |-> FALSE,
                 seqErr |-> FALSE] :
                   c \in Collectors, s \in Seqs}

\* result := Collect(...)(seq), up to the first element
Collect_Call ==
    /\ coll.pc = "idle"
    /\ coll' = collectBegin(coll)
    /\ UNCHANGED exceptColl

\* The Sequence hands its next element to yield: the loop body runs, and
\* the Sequence returns at once if yield answers false.
Seq_Yield ==
    /\ coll.pc = "draining"
    /\ coll.pos < Len(coll.seq.items)
    /\ LET v == coll.seq.items[coll.pos + 1]
           bf == loopBody(coll.bf, v)
           more == loopContinues(coll.bf)
       IN  coll' = [coll EXCEPT
                     !.bf = bf,
                     !.log = IF coll.seq.end = "loop" THEN @ ELSE Append(@, v),
                     !.pos = IF coll.seq.end = "loop"
                             THEN (@ + 1) % Len(coll.seq.items)
                             ELSE @ + 1,
                     !.stopped = ~more,
                     !.seqDone = ~more,
                     !.pc = IF more THEN "draining" ELSE "returned",
                     !.result = IF more THEN @
                                ELSE [ptr |-> bf, err |-> NoErr]]
    /\ UNCHANGED exceptColl

\* The Sequence has no element left and returns.
Seq_Return ==
    /\ coll.pc = "draining"
    /\ coll.seq.end # "loop"
    /\ coll.pos = Len(coll.seq.items)
    /\ coll' = collectEnd(coll)
    /\ UNCHANGED exceptColl

CollectNext ==
    \/ Collect_Call
    \/ Seq_Yield
    \/ Seq_Return

SpecCollect == CollectInit /\ [][CollectNext]_vars

\* The collector and the Sequence run on one goroutine, which keeps
\* running while it has a step to take.
SpecCollectFair == SpecCollect /\ WF_vars(CollectNext)

(***************************************************************************)
(* File-backed input: NewFileLineStream(paths), that is                    *)
(* ParseFiles(NewFileStream(paths), LineParser{}), run by a consumer.      *)
(*                                                                         *)
(* A file is described by what the operating system answers for it:        *)
(*   exists    os.Stat succeeds                                            *)
(*   openErr   os.Open fails                                               *)
(*   n         the number of lines that end in a newline                   *)
(*   tail      what ReadString returns after them: "eof" (no data,         *)
(*             io.EOF), "partial" (a last line without newline, io.EOF),   *)
(*             "err" (no data, a read error) or "partialErr" (data read    *)
(*             before a read error, and that error)                        *)
(*   closeErr  Close fails                                                 *)
(* A record is <<i, k>>: the k-th record of the i-th path.                 *)
(*                                                                         *)
(* inp: the stream and its current run                                     *)
(*   fs         the files the paths name, in path order                    *)
(*   last       ParseFiles' state.last, what Err() returns                 *)
(*   srcLast    NewFileStream's state.last, what files.Err() returns       *)
(*   pc         "idle" between runs, else where the run stands             *)
(*   stopAt     the consumer: it answers false to the stopAt-th record it  *)
(*              is handed; 0 for a consumer that always answers true       *)
(*   idx, pos   the path being worked on and the lines read from its file  *)
(*   runErr, srcRunErr   the runErr of ParseFiles' and of NewFileStream's  *)
(*              seq                                                        *)
(*   err, stopped   parseFileWith's err and stopped                        *)
(*   ran        whether a run has completed                                *)
(*   history of the current run: got (the records handed to the            *)
(*   consumer), met (the first error an operation returned to the code),   *)
(*   seen (the first error a stage of the stream returned), prev (what     *)
(*   Err() returned when the run started), opens and closes (files opened  *)
(*   and closed)                                                           *)
(***************************************************************************)
MaxPaths == 3

MaxStopAt == 3

Missing ==
    [exists |-> FALSE, openErr |-> FALSE, n |-> 0, tail |-> "eof",
     closeErr |-> FALSE]

OpenFails ==
    [exists |-> TRUE, openErr |-> TRUE, n |-> 1, tail |-> "eof",
     closeErr |-> FALSE]

TwoLines ==
    [exists |-> TRUE, openErr |-> FALSE, n |-> 2, tail |-> "eof",
     closeErr |-> FALSE]

NoFinalNewline ==
    [exists |-> TRUE, openErr |-> FALSE, n |-> 1, tail |-> "partial",
     closeErr |-> FALSE]

ReadFails ==
    [exists |-> TRUE, openErr |-> FALSE, n |-> 1, tail |-> "err",
     closeErr |-> FALSE]

ReadFailsMidLine ==
    [exists |-> TRUE, openErr |-> FALSE, n |-> 1, tail |-> "partialErr",
     closeErr |-> FALSE]

CloseFails ==
    [exists |-> TRUE, openErr |-> FALSE, n |-> 1, tail |-> "eof",
     closeErr |-> TRUE]

FileKinds ==
    {Missing, OpenFails, TwoLines, NoFinalNewline, ReadFails,
     ReadFailsMidLine, CloseFails}

RECURSIVE FileLists(_)
FileLists(n) ==
    IF n = 0 THEN {<<>>}
    ELSE {Append(l, f) : l \in FileLists(n - 1), f \in FileKinds}

\* fmt.Errorf("stat %s: %w", path, err) and its like, for the i-th path
statErr(i) == "stat p" \o ToString(i)

openErr(i) == "open p" \o ToString(i)

parseErr(i) == "parse p" \o ToString(i)

closeErr(i) == "close p" \o ToString(i)

setFirstErr(dst, err) == IF err # NoErr /\ dst = NoErr THEN err ELSE dst

\* a runErrState whose Set keeps an error it already holds
runErrState_Set_keepFirst(old, err) == setFirstErr(old, err)

\* runErrState.Set: the new value of last
runErrState_Set(old, err) == err

\* what the consumer answers to the record that makes its count-th
consumerAccepts(count, stopAt) == count # stopAt

\* ParseFiles' seq returns out of its range loop: the yield of
\* NewFileStream's seq answers false, that seq returns and its deferred
\* call stores its runErr.
leaveLoop(s) ==
    [s EXCEPT !.pc = "finish",
              !.srcLast = runErrState_Set(s.srcLast, s.srcRunErr)]

\* a file stream that goes on to the next path when one is missing
afterStat_skipMissing(s) ==
    IF s.idx > Len(s.fs)
    THEN [s EXCEPT !.pc = "sourceErr",
                   !.srcLast = runErrState_Set(s.srcLast, s.srcRunErr)]
    ELSE IF ~s.fs[s.idx].exists
    THEN [s EXCEPT !.srcRunErr = setFirstErr(@, statErr(s.idx)),
                   !.met = setFirstErr(@, statErr(s.idx)),
                   !.seen = setFirstErr(@, statErr(s.idx)),
                   !.idx = @ + 1]
    ELSE [s EXCEPT !.pc = "open"]

\* NewFileStream's seq, one turn of its loop over paths: no path left, a
\* path os.Stat fails for, or a path handed to ParseFiles' loop body
afterStat(s) ==
    IF s.idx > Len(s.fs)
    THEN [s EXCEPT !.pc = "sourceErr",
                   !.srcLast = runErrState_Set(s.srcLast, s.srcRunErr)]
    ELSE IF ~s.fs[s.idx].exists
    THEN [s EXCEPT !.pc = "sourceErr",
                   !.srcRunErr = setFirstErr(@, statErr(s.idx)),
                   !.srcLast = runErrState_Set(s.srcLast,
                                   setFirstErr(s.srcRunErr, statErr(s.idx))),
                   !.met = setFirstErr(@, statErr(s.idx)),
                   !.seen = setFirstErr(@, statErr(s.idx))]
    ELSE [s EXCEPT !.pc = "open"]

\* parseFileWith, file.Open(): on failure it returns (false, open error),
\* ParseFiles records the error and returns
afterOpen(s) ==
    IF s.fs[s.idx].openErr
    THEN leaveLoop([s EXCEPT !.runErr = setFirstErr(@, openErr(s.idx)),
                             !.met = setFirstErr(@, openErr(s.idx)),
                             !.seen = setFirstErr(@, openErr(s.idx))])
    ELSE [s EXCEPT !.pc = "read", !.pos = 0, !.stopped = FALSE,
                   !.err = NoErr, !.opens = @ + 1]

\* LineParser.Parse, one turn of its loop: ReadString, yield of the line
\* if there is one, then the look at readErr.  Parse returns nil as soon
\* as yield answers false.
afterRead(s) ==
    LET f == s.fs[s.idx]
        hasLine == s.pos < f.n \/ f.tail \in {"partial", "partialErr"}
        readErr == IF s.pos < f.n THEN NoErr
                   ELSE IF f.tail \in {"err", "partialErr"}
                   THEN parseErr(s.idx)
                   ELSE "EOF"
        got == IF hasLine THEN Append(s.got, <<s.idx, s.pos + 1>>) ELSE s.got
        accepted == ~hasLine \/ consumerAccepts(Len(got), s.stopAt)
        t == [s EXCEPT !.got = got,
                       !.met = IF readErr \in {NoErr, "EOF"} THEN @
                               ELSE setFirstErr(@, readErr)]
    IN  IF ~accepted
        THEN [t EXCEPT !.stopped = TRUE, !.pc = "close"]
        ELSE IF readErr = "EOF"
        THEN [t EXCEPT !.pc = "close"]
        ELSE IF readErr # NoErr
        THEN [t EXCEPT !.err = setFirstErr(@, readErr),
                       !.seen = setFirstErr(@, readErr),
                       !.pc = "close"]
        ELSE [t EXCEPT !.pos = @ + 1]

\* a ParseFiles whose loop goes on to the next file after the consumer
\* stopped
afterClose_ignoreStop(s) ==
    LET cErr == IF s.fs[s.idx].closeErr THEN closeErr(s.idx) ELSE NoErr
        err == setFirstErr(s.err, cErr)
        t == [s EXCEPT !.err = err,
                       !.runErr = setFirstErr(@, err),
                       !.met = setFirstErr(@, cErr),
                       !.seen = setFirstErr(@, cErr),
                       !.closes = @ + 1]
    IN  IF t.runErr # NoErr
        THEN leaveLoop(t)
        ELSE [t EXCEPT !.pc = "stat", !.idx = @ + 1]

\* a parseFileWith that returns without closing when the consumer stopped
afterClose_leakOnStop(s) ==
    LET cErr == IF s.fs[s.idx].closeErr /\ ~s.stopped
                THEN closeErr(s.idx) ELSE NoErr
        err == setFirstErr(s.err, cErr)
        t == [s EXCEPT !.err = err,
                       !.runErr = setFirstErr(@, err),
                       !.met = setFirstErr(@, cErr),
                       !.seen = setFirstErr(@, cErr),
                       !.closes = IF s.stopped THEN @ ELSE @ + 1]
    IN  IF t.stopped \/ t.runErr # NoErr
        THEN leaveLoop(t)
        ELSE [t EXCEPT !.pc = "stat", !.idx = @ + 1]

\* parseFileWith from reader.Close() on, and ParseFiles' loop body after
\* the call: record the error, return if the consumer stopped or an error
\* is recorded, else go on to the next file
afterClose(s) ==
    LET cErr == IF s.fs[s.idx].closeErr THEN closeErr(s.idx) ELSE NoErr
        err == setFirstErr(s.err, cErr)
        t == [s EXCEPT !.err = err,
                       !.runErr = setFirstErr(@, err),
                       !.met = setFirstErr(@, cErr),
                       !.seen = setFirstErr(@, cErr),
                       !.closes = @ + 1]
    IN  IF t.stopped \/ t.runErr # NoErr
        THEN leaveLoop(t)
        ELSE [t EXCEPT !.pc = "stat", !.idx = @ + 1]

\* ParseFiles' seq after its loop: files.Err()
afterLoop(s) ==
    [s EXCEPT !.runErr = setFirstErr(@, s.srcLast), !.pc = "finish"]

\* ParseFiles' deferred state.Set(runErr)
afterRun(s) ==
    [s EXCEPT !.last = runErrState_Set(s.last, s.runErr),
              !.pc = "idle", !.ran = TRUE]

InputInit ==
    /\ NoStructures
    /\ sg = Unused
    /\ ov = Unused
    /\ made = Unused
    /\ coll = Unused
    /\ tk = Unused
    /\ inp \in {[fs |-> fs, last |-> NoErr, srcLast |-> NoErr, pc |-> "idle",
                 stopAt |-> 0, idx |-> 1, pos |-> 0, runErr |-> NoErr,
                 srcRunErr |-> NoErr, err |-> NoErr, stopped |-> FALSE,
                 ran |-> FALSE, got |-> <<>>, met |-> NoErr, seen |-> NoErr,
                 prev |-> NoErr, opens |-> 0, closes |-> 0] :
                   fs \in UNION {FileLists(n) : n \in 1..MaxPaths}}

\* a consumer starts ranging over source.Seq
Run_Start(stopAt) ==
    /\ inp.pc = "idle"
    /\ inp' = [inp EXCEPT !.pc = "stat", !.stopAt = stopAt, !.idx = 1,
                          !.pos = 0, !.runErr = NoErr, !.srcRunErr = NoErr,
                          !.err = NoErr, !.stopped = FALSE, !.got = <<>>,
                          !.met = NoErr, !.seen = NoErr, !.prev = inp.last,
                          !.opens = 0, !.closes = 0]
    /\ UNCHANGED exceptInp

File_Stat ==
    /\ inp.pc = "stat"
    /\ inp' = afterStat(inp)
    /\ UNCHANGED exceptInp

File_Open ==
    /\ inp.pc = "open"
    /\ inp' = afterOpen(inp)
    /\ UNCHANGED exceptInp

File_Read ==
    /\ inp.pc = "read"
    /\ inp' = afterRead(inp)
    /\ UNCHANGED exceptInp

File_Close ==
    /\ inp.pc = "close"
    /\ inp' = afterClose(inp)
    /\ UNCHANGED exceptInp

Source_Err ==
    /\ inp.pc = "sourceErr"
    /\ inp' = afterLoop(inp)
    /\ UNCHANGED exceptInp

Run_End ==
    /\ inp.pc = "finish"
    /\ inp' = afterRun(inp)
    /\ UNCHANGED exceptInp

InputNext ==
    \/ \E stopAt \in 0..MaxStopAt : Run_Start(stopAt)
    \/ File_Stat
    \/ File_Open
    \/ File_Read
    \/ File_Close
    \/ Source_Err
    \/ Run_End

SpecInput == InputInit /\ [][InputNext]_vars

(***************************************************************************)
(* Take(n, cont) applied to an upstream Sequence, with cont ranging once   *)
(* over the Sequence Take hands it.                                        *)
(*                                                                         *)
(* tk: one use of Take                                                     *)
(*   n        Take's argument                                              *)
(*   up       the upstream Sequence (its elements, and "done" or "loop")   *)
(*   stopAt   the downstream consumer: it answers false to the stopAt-th   *)
(*            element it is handed; 0 for one that always answers true     *)
(*   pc       "idle" before cont ranges, "ranging" inside Take's loop,     *)
(*            "done" once Take's Sequence function has returned            *)
(*   count    Take's count                                                 *)
(*   started  how many times the upstream function was invoked             *)
(*   pulled   how many elements the upstream has handed to Take's loop     *)
(*   out      the elements Take has handed downstream, in order            *)
(*   downStopped  whether the downstream consumer answered false           *)
(***************************************************************************)
TakeArgs == (-1)..(MaxSeqLen + 1)

Upstreams == {s \in Seqs : s.end \in {"done", "loop"}}

\* Take whose loop ends once count exceeds n
takeFull_offByOne(count, n) == count > n

\* count >= n
takeFull(count, n) == count >= n

\* the element the upstream yields after `pulled` others
nextOf(up, pulled) == up.items[(pulled % Len(up.items)) + 1]

upstreamHasNext(up, pulled) ==
    /\ Len(up.items) > 0
    /\ up.end = "loop" \/ pulled < Len(up.items)

TakeInit ==
    /\ NoStructures
    /\ sg = Unused
    /\ ov = Unused
    /\ made = Unused
    /\ coll = Unused
    /\ inp = Unused
    /\ tk \in {[n |-> n, up |-> up, stopAt |-> stopAt, pc |-> "idle",
                count |-> 0, started |-> 0, pulled |-> 0, out |-> <<>>,
                downStopped |-> FALSE] :
                  n \in TakeArgs, up \in Upstreams, stopAt \in 0..MaxStopAt}

\* cont starts ranging over Take's Sequence: it returns at once for
\* n <= 0 and otherwise starts ranging over the upstream
Take_Start ==
    /\ tk.pc = "idle"
    /\ tk' = IF tk.n <= 0
             THEN [tk EXCEPT !.pc = "done"]
             ELSE [tk EXCEPT !.pc = "ranging", !.count = 0,
                             !.started = @ + 1]
    /\ UNCHANGED exceptTk

\* The upstream hands its next element to Take's loop body: the element
\* goes downstream; Take returns if the consumer answers false, and after
\* count++ if count >= n.
Take_Element ==
    /\ tk.pc = "ranging"
    /\ upstreamHasNext(tk.up, tk.pulled)
    /\ LET v == nextOf(tk.up, tk.pulled)
           out == Append(tk.out, v)
           accepted == consumerAccepts(Len(out), tk.stopAt)
       IN  tk' = IF ~accepted
                 THEN [tk EXCEPT !.pulled = @ + 1, !.out = out,
                                 !.downStopped = TRUE, !.pc = "done"]
                 ELSE [tk EXCEPT !.pulled = @ + 1, !.out = out,
                                 !.count = @ + 1,
                                 !.pc = IF takeFull(tk.count + 1, tk.n)
                                        THEN "done" ELSE "ranging"]
    /\ UNCHANGED exceptTk

\* The upstream has no element left and returns; so does Take.
Take_Exhausted ==
    /\ tk.pc = "ranging"
    /\ tk.up.end = "done"
    /\ tk.pulled = Len(tk.up.items)
    /\ tk' = [tk EXCEPT !.pc = "done"]
    /\ UNCHANGED exceptTk

TakeNext ==
    \/ Take_Start
    \/ Take_Element
    \/ Take_Exhausted

SpecTake == TakeInit /\ [][TakeNext]_vars

(***************************************************************************)
(* The lazy stages Filter, Map, FlatMap and Distinct, each applied to an   *)
(* upstream Sequence, with cont ranging over the Sequence the stage hands  *)
(* it.                                                                     *)
(*                                                                         *)
(* sg: one stage and the runs over its Sequence                            *)
(*   stage    the stage: its name and, for Filter, the value fn keeps      *)
(*   up       the upstream Sequence                                        *)
(*   stopAt   the downstream consumer of the current run: it answers false *)
(*            to the stopAt-th element it is handed; 0 for one that always *)
(*            answers true                                                 *)
(*   pc       "idle" before the first run, "ranging" in the loop over the  *)
(*            upstream, "inner" in FlatMap's loop over fn(v), "done" once  *)
(*            the stage's Sequence function has returned                   *)
(*   runs     how many runs were started                                   *)
(*   pulled   how many elements the upstream has handed to the stage in    *)
(*            this run                                                     *)
(*   out      the elements handed downstream in this run, in order         *)
(*   seen     Distinct's map seen                                          *)
(*   cur, ipos   FlatMap: fn(v) of the element in hand and how many of its *)
(*            elements were handed on                                      *)
(*   downStopped   whether the consumer answered false in this run         *)
(***************************************************************************)
MaxRuns == 2

MaxPulled == 5

\* Filter's fn: keeps the value `keep`
fnFilter(keep, v) == v = keep

\* Map's fn
fnMap(v) == v + 10

\* FlatMap's fn: no element for 1, two elements for any other value
fnFlatMap(v) == IF v = 1 THEN <<>> ELSE <<10 * v + 1, 10 * v + 2>>

Stages ==
    {[op |-> "Filter", keep |-> k] : k \in Elems}
      \cup {[op |-> op, keep |-> 0] : op \in {"Map", "FlatMap", "Distinct"}}

\* a Distinct that remembers only the value it saw last
remember_lastOnly(seen, v) == {v}

\* seen[v] = struct{}{}
remember(seen, v) == seen \cup {v}

\* a stage that goes on with its loop when yield answers false
onStop_goOn(s) == [s EXCEPT !.downStopped = TRUE]

\* if !yield(...) { return }
onStop(s) == [s EXCEPT !.downStopped = TRUE, !.pc = "done"]

\* yield(w): the element goes downstream and the stage returns if the
\* consumer answers false
deliver(s, w) ==
    LET out == Append(s.out, w)
        t == [s EXCEPT !.out = out]
    IN  IF consumerAccepts(Len(out), s.stopAt) THEN t ELSE onStop(t)

\* the loop body of the stage for the upstream element v
stageBody(s, v) ==
    CASE s.stage.op = "Filter" ->
           IF fnFilter(s.stage.keep, v) THEN deliver(s, v) ELSE s
      [] s.stage.op = "Map" -> deliver(s, fnMap(v))
      [] s.stage.op = "FlatMap" ->
           [s EXCEPT !.pc = "inner", !.cur = fnFlatMap(v), !.ipos = 0]
      [] s.stage.op = "Distinct" ->
           IF v \in s.seen THEN s
           ELSE deliver([s EXCEPT !.seen = remember(s.seen, v)], v)

\* FlatMap's inner loop: the next element of fn(v) goes downstream, or the
\* loop ends and the outer loop goes on
innerBody(s) ==
    IF s.ipos < Len(s.cur)
    THEN deliver([s EXCEPT !.ipos = @ + 1], s.cur[s.ipos + 1])
    ELSE [s EXCEPT !.pc = "ranging"]

StageInit ==
    /\ NoStructures
    /\ made = Unused
    /\ coll = Unused
    /\ inp = Unused
    /\ tk = Unused
    /\ ov = Unused
    /\ sg \in {[stage |-> st, up |-> up, stopAt |-> 0, pc |-> "idle",
                runs |-> 0, pulled |-> 0, out |-> <<>>, seen |-> {},
                cur |-> <<>>, ipos |-> 0, downStopped |-> FALSE] :
                  st \in Stages, up \in Upstreams}

\* cont ranges over the stage's Sequence: a new run of its function
Stage_Start(stopAt) ==
    /\ sg.pc \in {"idle", "done"}
    /\ sg.runs < MaxRuns
    /\ sg' = [sg EXCEPT !.pc = "ranging", !.stopAt = stopAt,
                        !.runs = @ + 1, !.pulled = 0, !.out = <<>>,
                        !.seen = {}, !.cur = <<>>, !.ipos = 0,
                        !.downStopped = FALSE]
    /\ UNCHANGED exceptSg

\* the upstream hands its next element to the loop body of the stage
Stage_Element ==
    /\ sg.pc = "ranging"
    /\ upstreamHasNext(sg.up, sg.pulled)
    /\ sg.pulled < MaxPulled
    /\ sg' = stageBody([sg EXCEPT !.pulled = @ + 1], nextOf(sg.up, sg.pulled))
    /\ UNCHANGED exceptSg

\* one turn of FlatMap's inner loop
Stage_Inner ==
    /\ sg.pc = "inner"
    /\ sg' = innerBody(sg)
    /\ UNCHANGED exceptSg

\* the upstream has no element left and returns; so does the stage
Stage_Exhausted ==
    /\ sg.pc = "ranging"
    /\ sg.up.end = "done"
    /\ sg.pulled = Len(sg.up.items)
    /\ sg' = [sg EXCEPT !.pc = "done"]
    /\ UNCHANGED exceptSg

StageNext ==
    \/ \E stopAt \in 0..MaxStopAt : Stage_Start(stopAt)
    \/ Stage_Element
    \/ Stage_Inner
    \/ Stage_Exhausted

SpecStage == StageInit /\ [][StageNext]_vars

(***************************************************************************)
(* Two goroutines ranging at once over the Seq of one                      *)
(* NewFileLineStream(paths).  Each run has its own runErr, position and    *)
(* file handle; the two runErrState values (ParseFiles' and                *)
(* NewFileStream's) are shared, and every Set and Get of them is one step  *)
(* under the lock.                                                         *)
(*                                                                         *)
(* ov: the stream and its two runs                                         *)
(*   last     ParseFiles' state.last, what Err() returns                   *)
(*   srcLast  NewFileStream's state.last, what files.Err() returns         *)
(*   run      per goroutine, its run: the fields of inp that belong to a   *)
(*            run (last and srcLast are not used there)                    *)
(*   fin      the goroutines whose run has ended, in the order in which    *)
(*            their deferred state.Set was executed                        *)
(*   sets     per goroutine, how many times its run has written            *)
(*            ParseFiles' state.last                                       *)
(***************************************************************************)
MaxOvPaths == 2

Goroutines == {1, 2}

\* the consumers of the overlapping runs: Collect (never stops) and First
OvStopAts == {0, 1}

OvFileKinds == {Missing, TwoLines, ReadFails}

RECURSIVE OvFileLists(_)
OvFileLists(n) ==
    IF n = 0 THEN {<<>>}
    ELSE {Append(l, f) : l \in OvFileLists(n - 1), f \in OvFileKinds}

\* a run that has just been started by a consumer
startedRun(fs, stopAt) ==
    [fs |-> fs, last |-> NoErr, srcLast |-> NoErr, pc |-> "stat",
     stopAt |-> stopAt, idx |-> 1, pos |-> 0, runErr |-> NoErr,
     srcRunErr |-> NoErr, err |-> NoErr, stopped |-> FALSE,
     ran |-> FALSE, got |-> <<>>, met |-> NoErr, seen |-> NoErr,
     prev |-> NoErr, opens |-> 0, closes |-> 0]

\* the run of goroutine g as its code sees it: its own variables and the
\* two shared error slots
viewOf(g) == [ov.run[g] EXCEPT !.last = ov.last, !.srcLast = ov.srcLast]

\* the state after goroutine g's run has become t
withRun(g, t) ==
    [ov EXCEPT !.last = t.last,
               !.srcLast = t.srcLast,
               !.run[g] = [t EXCEPT !.last = NoErr, !.srcLast = NoErr]]

OverlapInit ==
    /\ NoStructures
    /\ made = Unused
    /\ coll = Unused
    /\ inp = Unused
    /\ tk = Unused
    /\ sg = Unused
    /\ ov \in {[last |-> NoErr, srcLast |-> NoErr,
                run |-> [g \in Goroutines |-> startedRun(fs, stop[g])],
                fin |-> <<>>,
                sets |-> [g \in Goroutines |-> 0]] :
                  fs \in UNION {OvFileLists(n) : n \in 1..MaxOvPaths},
                  stop \in [Goroutines -> OvStopAts]}

Ov_Stat(g) ==
    /\ ov.run[g].pc = "stat"
    /\ ov' = withRun(g, afterStat(viewOf(g)))
    /\ UNCHANGED exceptOv

Ov_Open(g) ==
    /\ ov.run[g].pc = "open"
    /\ ov' = withRun(g, afterOpen(viewOf(g)))
    /\ UNCHANGED exceptOv

Ov_Read(g) ==
    /\ ov.run[g].pc = "read"
    /\ ov' = withRun(g, afterRead(viewOf(g)))
    /\ UNCHANGED exceptOv

Ov_Close(g) ==
    /\ ov.run[g].pc = "close"
    /\ ov' = withRun(g, afterClose(viewOf(g)))
    /\ UNCHANGED exceptOv

\* files.Err(), read after the run's own source loop has ended
Ov_SourceErr(g) ==
    /\ ov.run[g].pc = "sourceErr"
    /\ ov' = withRun(g, afterLoop(viewOf(g)))
    /\ UNCHANGED exceptOv

\* the deferred state.Set(runErr) of goroutine g's run
Ov_End(g) ==
    /\ ov.run[g].pc = "finish"
    /\ ov' = [withRun(g, afterRun(viewOf(g))) EXCEPT
                 !.fin = Append(ov.fin, g),
                 !.sets[g] = @ + 1]
    /\ UNCHANGED exceptOv

OverlapNext ==
    \E g \in Goroutines :
        \/ Ov_Stat(g)
        \/ Ov_Open(g)
        \/ Ov_Read(g)
        \/ Ov_Close(g)
        \/ Ov_SourceErr(g)
        \/ Ov_End(g)

SpecOverlap == OverlapInit /\ [][OverlapNext]_vars

(***************************************************************************)
(* Properties.                                                             *)
(***************************************************************************)
IsBloom(r) == heap[r].kind = "bloom"
IsCms(r) == heap[r].kind = "cms"

\* C1: no false negative.  Every key a filter has received since its
\* construction or last Reset, by an insert of its own or through a
\* successful Merge, tests true, whatever else was inserted.
C1_NoFalseNegative ==
    \A r \in Refs : IsBloom(r) =>
        \A k \in Keys : hist[r].cnt[k] > 0 => BloomFilter_TestBytes(heap[r], k)

\* C1 witness: a two-word filter holding both keys after a Merge, while a
\* filter that never received "i" answers false for it.
C1_Witness ==
    \E r \in Refs, q \in Refs :
        /\ IsBloom(r) /\ heap[r].bitSize = 75 /\ hist[r].merged
        /\ hist[r].cnt[KeyA] > 0 /\ hist[r].cnt[KeyI] > 0
        /\ BloomFilter_TestBytes(heap[r], KeyA)
        /\ BloomFilter_TestBytes(heap[r], KeyI)
        /\ IsBloom(q) /\ hist[q].cnt[KeyA] > 0 /\ hist[q].cnt[KeyI] = 0
        /\ ~BloomFilter_TestBytes(heap[q], KeyI)

\* C2: never underestimates.  For a sketch that received only Add calls
\* since its construction or last Reset, Estimate(k) is at least the exact
\* sum of the counts added for k.
C2_NeverUnderestimates ==
    \A r \in Refs : (IsCms(r) /\ ~hist[r].merged) =>
        \A k \in Keys : CountMinSketch_EstimateBytes(heap[r], k) >= hist[r].cnt[k]

\* The structure that a fresh sketch of the given dimensions becomes when it
\* receives, key by key and one unit per Add call, the counts of cnt.
RECURSIVE ReplayCms(_, _)
ReplayCms(cms, cnt) ==
    IF \A k \in Keys : cnt[k] = 0 THEN cms
    ELSE LET k == CHOOSE x \in Keys : cnt[x] > 0
         IN  ReplayCms(CountMinSketch_AddBytes(cms, k, 1),
                       [cnt EXCEPT ![k] = @ - 1])

\* The same for a filter and Insert calls.
RECURSIVE ReplayBloom(_, _)
ReplayBloom(bf, cnt) ==
    IF \A k \in Keys : cnt[k] = 0 THEN bf
    ELSE LET k == CHOOSE x \in Keys : cnt[x] > 0
         IN  ReplayBloom(BloomFilter_AddBytes(bf, k),
                         [cnt EXCEPT ![k] = @ - 1])

BothHistories(a, b) == [k \in Keys |-> hist[a].cnt[k] + hist[b].cnt[k]]

MergedOk(op, a, b) ==
    /\ last'.op = op /\ last'.recv = a /\ last'.other = b
    /\ last'.err = NoErr

DimsDiffer(x, y) ==
    \/ /\ x.kind = "bloom" /\ y.kind = "bloom"
       /\ (x.bitSize # y.bitSize \/ x.hashFuncs # y.hashFuncs)
    \/ /\ x.kind = "cms" /\ y.kind = "cms"
       /\ (x.width # y.width \/ x.depth # y.depth)

IncompatibleErr(x) ==
    IF x.kind = "bloom" THEN errIncompatibleBloomFilter ELSE errIncompatibleCMS

IsMerge(op) == op \in {"BloomFilter.Merge", "CountMinSketch.Merge"}

\* C5: a Merge between two structures whose dimensions differ returns the
\* incompatible-dimensions error and leaves the receiver as it was.
C5_IncompatibleMerge ==
    [][\A a \in Refs, b \in Refs :
          (/\ IsMerge(last'.op) /\ last'.recv = a /\ last'.other = b
           /\ DimsDiffer(heap[a], heap[b]))
          => /\ last'.err = IncompatibleErr(heap[a])
             /\ heap'[a] = heap[a]]_vars

\* C5 witness: a Merge has just been refused between two filters of equal
\* bitSize and different hashFuncs, the receiver holding inserts.
C5_Witness ==
    /\ last.op = "BloomFilter.Merge"
    /\ last.err = errIncompatibleBloomFilter
    /\ heap[last.recv].bitSize = heap[last.other].bitSize
    /\ heap[last.recv].hashFuncs # heap[last.other].hashFuncs
    /\ heap[last.recv].added > 0
    /\ heap[last.other].added > 0

\* C6 as stated: a successful Merge leaves every operand it accepts as it
\* was.
C6_OperandUnchanged ==
    [][\A a \in Refs, b \in Refs :
          (/\ IsMerge(last'.op) /\ last'.recv = a /\ last'.other = b
           /\ last'.err = NoErr)
          => heap'[b] = heap[b]]_vars

\* C6 amended: a successful Merge leaves every operand that is not the
\* receiver itself as it was.
C6_DistinctOperandUnchanged ==
    [][\A a \in Refs, b \in Refs :
          (/\ IsMerge(last'.op) /\ last'.recv = a /\ last'.other = b
           /\ last'.err = NoErr /\ a # b)
          => heap'[b] = heap[b]]_vars

\* C6 witness: a Merge of two different sketches has just succeeded and the
\* operand still holds its counts.
C6_Witness ==
    /\ last.op = "CountMinSketch.Merge" /\ last.err = NoErr
    /\ last.recv # last.other
    /\ heap[last.other].total > 0
    /\ heap[last.other].total = hist[last.other].ops
    /\ heap[last.recv].total # heap[last.other].total

\* C7: AddedCount is the exact number of Insert calls since construction or
\* the last Reset plus the AddedCount of every operand merged in.
C7_AddedCountExact ==
    \A r \in Refs : IsBloom(r) => heap[r].added = hist[r].ops

\* C8: TotalCount is the exact sum of the count arguments of the Add calls
\* since construction or the last Reset plus the TotalCount of every operand
\* merged in.
C8_TotalCountExact ==
    \A r \in Refs : IsCms(r) => heap[r].total = hist[r].ops

IsReset(op) == op \in {"BloomFilter.Reset", "CountMinSketch.Reset"}

\* C9: Reset leaves the structure as its constructor made it: dimensions
\* unchanged, count 0, Estimate 0 and Test false for every key.
C9_ResetIsFresh ==
    [][\A r \in Refs :
          (IsReset(last'.op) /\ last'.recv = r) =>
            IF heap[r].kind = "bloom"
            THEN /\ heap'[r].bitSize = heap[r].bitSize
                 /\ heap'[r].hashFuncs = heap[r].hashFuncs
                 /\ heap'[r].added = 0
                 /\ \A k \in Keys : ~BloomFilter_TestBytes(heap'[r], k)
                 /\ heap'[r] =
                       NewBloomFilter(heap[r].bitSize, heap[r].hashFuncs).ptr
            ELSE /\ heap'[r].width = heap[r].width
                 /\ heap'[r].depth = heap[r].depth
                 /\ heap'[r].total = 0
                 /\ \A k \in Keys :
                       CountMinSketch_EstimateBytes(heap'[r], k) = 0
                 /\ heap'[r] =
                       NewCountMinSketch(heap[r].width, heap[r].depth).ptr]_vars

\* C9 witness: a two-row sketch that held counts has just been reset.
C9_Witness ==
    /\ last.op = "CountMinSketch.Reset" /\ last.n1 > 0
    /\ heap[last.recv].depth = 2
    /\ heap[last.recv].total = 0

C17_NilMerge ==
    [][\A a \in Refs, b \in Refs :
          (IsMerge(last'.op) /\ last'.recv = a /\ last'.other = b
           /\ (heap[a] = Nil \/ heap[b] = Nil))
          => /\ last'.err = IF last'.op = "BloomFilter.Merge"
                            THEN errNilBloomFilter
                            ELSE errNilCountMinSketch
             /\ heap'[a] = heap[a]
             /\ heap'[b] = heap[b]]_vars

\* C17 witness: a sketch that holds counts has just been merged with a nil
\* operand, got the nil error and still holds its counts.
C17_Witness ==
    /\ last.op = "CountMinSketch.Merge"
    /\ last.err = errNilCountMinSketch
    /\ heap[last.other] = Nil
    /\ IsCms(last.recv)
    /\ heap[last.recv].total > 0
    /\ heap[last.recv].total = hist[last.recv].ops

\* C11: the error-bound constructors return their own validation error and
\* no structure when expectedItems <= 0, when falsePositiveRate <= 0 or
\* >= 1, when epsilon <= 0, and when delta <= 0 or >= 1.
C11_InvalidInputsFail ==
    /\ made.op = "NewBloomFilterByError" =>
         /\ made.n <= 0 =>
               made.ptr = Nil /\ made.err = errInvalidExpectedItems
         /\ (made.n > 0 /\ (FLeq0(made.f1) \/ FGeq1(made.f1))) =>
               made.ptr = Nil /\ made.err = errInvalidFalsePositiveRate
    /\ made.op = "NewCountMinSketchByError" =>
         /\ FLeq0(made.f1) =>
               made.ptr = Nil /\ made.err = errInvalidEpsilon
         /\ (~FLeq0(made.f1) /\ (FLeq0(made.f2) \/ FGeq1(made.f2))) =>
               made.ptr = Nil /\ made.err = errInvalidDelta

\* C11 witness: NewBloomFilterByError(10, 1) has just been refused for its
\* false positive rate.
C11_Witness ==
    /\ made.op = "NewBloomFilterByError"
    /\ made.n = 10 /\ made.f1 = Fin(Scale)
    /\ made.ptr = Nil
    /\ made.err = errInvalidFalsePositiveRate

\* expectedItems > 0 and falsePositiveRate in (0,1)
ValidBloomTargets ==
    /\ made.op = "NewBloomFilterByError"
    /\ made.n > 0
    /\ made.f1.cls = "fin" /\ made.f1.v > 0 /\ made.f1.v < Scale

\* epsilon > 0 and delta in (0,1)
ValidSketchTargets ==
    /\ made.op = "NewCountMinSketchByError"
    /\ made.f1.cls = "+inf" \/ (made.f1.cls = "fin" /\ made.f1.v > 0)
    /\ made.f2.cls = "fin" /\ made.f2.v > 0 /\ made.f2.v < Scale

\* C12: for every valid input the error-bound constructors succeed, with
\* bitSize >= 1 and hashFuncs >= 1, respectively width >= 1 and depth >= 1.
C12_ValidInputsSucceed ==
    /\ ValidBloomTargets =>
         /\ made.err = NoErr
         /\ made.ptr # Nil
         /\ made.ptr.bitSize >= 1 /\ made.ptr.hashFuncs >= 1
    /\ ValidSketchTargets =>
         /\ made.err = NoErr
         /\ made.ptr # Nil
         /\ made.ptr.width >= 1 /\ made.ptr.depth >= 1

\* the constructor of the collector succeeded
Constructed == Construct(coll).err = NoErr

\* C13: when the collector's constructor fails, the collector returns that
\* failure and no structure, the Sequence function is never invoked, no
\* element is pulled from it and keyFn is never called.
C13_FailureTouchesNothing ==
    (coll.pc # "idle" /\ ~Constructed) =>
        /\ coll.pc = "returned"
        /\ coll.result = [ptr |-> Nil, err |-> Construct(coll).err]
        /\ coll.runs = 0
        /\ coll.pos = 0
        /\ coll.log = <<>>
        /\ ~coll.seqDone

\* C13 witness: CountMinSketchCollectByError with delta = 1 has returned
\* errInvalidDelta over a Sequence that never ends, without starting it.
C13_Witness ==
    /\ coll.fn = "CountMinSketchCollectByError"
    /\ coll.pc = "returned"
    /\ coll.result.err = errInvalidDelta
    /\ coll.seq.end = "loop" /\ Len(coll.seq.items) >= 2
    /\ coll.runs = 0

RECURSIVE ByHand(_, _)
\* the structure after Insert(keyFn(e)) / Add(keyFn(e), 1) for each element
\* of items in order
ByHand(bf, items) ==
    IF items = <<>> THEN bf
    ELSE ByHand(loopBody(bf, Head(items)), Tail(items))

\* AddedCount, respectively TotalCount
CountOf(bf) == IF bf.kind = "bloom" THEN bf.added ELSE bf.total

\* The collector ran the Sequence once, called keyFn once per element in
\* production order, and returned the structure those calls give by hand.
DrainIsReplay ==
    (coll.pc = "returned" /\ Constructed) =>
        /\ coll.runs = 1
        /\ coll.log = coll.seq.items
        /\ coll.result.ptr = ByHand(Construct(coll).ptr, coll.seq.items)

\* C14: when construction succeeds the collector runs the Sequence exactly
\* once, calls Insert(keyFn(e)) or Add(keyFn(e), 1) exactly once per element
\* in production order, returns the structure those calls give by hand, and
\* AddedCount / TotalCount equals the number of elements produced.
C14_CollectIsReplayWithExactCount ==
    /\ DrainIsReplay
    /\ (coll.pc = "returned" /\ Constructed) =>
           CountOf(coll.result.ptr) = Len(coll.seq.items)

\* C15: a returned result holds an error exactly when the constructor
\* failed, and then no structure; otherwise it holds a structure and no
\* error, whether or not the Sequence reported a failure of its own.
C15_StructureXorError ==
    coll.pc = "returned" =>
        /\ (coll.result.err # NoErr) <=> ~Constructed
        /\ coll.result.err # NoErr =>
              /\ coll.result.ptr = Nil
              /\ coll.result.err = Construct(coll).err
        /\ coll.result.err = NoErr => coll.result.ptr # Nil

\* C15 witness: the Sequence yielded two elements and then failed; the
\* result holds the sketch with both counted and a nil Err.
C15_Witness ==
    /\ coll.pc = "returned"
    /\ coll.seq.end = "fail" /\ coll.seqErr
    /\ Len(coll.seq.items) = 2
    /\ coll.result.err = NoErr
    /\ coll.result.ptr.kind = "cms"
    /\ coll.result.ptr.total = 2

\* C16 as stated: the loop body never answers false, the collector has
\* returned exactly when the Sequence function has returned, it never
\* returns over a Sequence that never ends and it returns over every
\* Sequence that ends.
C16_ReturnsIffExhausted ==
    /\ [](~coll.stopped)
    /\ [](coll.pc = "returned" <=> coll.seqDone)
    /\ [](coll.seq.end = "loop" => coll.pc # "returned")
    /\ (coll.seq.end # "loop") ~> (coll.pc = "returned")

\* C16, amended: the loop body never answers false; once the constructor
\* has succeeded the collector has returned exactly when the Sequence
\* function has returned, so never over a Sequence that never ends; and it
\* returns over every Sequence that ends.
C16_ReturnsIffExhaustedOnceConstructed ==
    /\ [](~coll.stopped)
    /\ [](Constructed => (coll.pc = "returned" <=> coll.seqDone))
    /\ [](Constructed /\ coll.seq.end = "loop" => coll.pc # "returned")
    /\ (coll.seq.end # "loop") ~> (coll.pc = "returned")

\* C16 witness: the collector has returned a filter after a Sequence of
\* three elements returned of its own accord.
C16_Witness ==
    /\ coll.pc = "returned"
    /\ coll.seq.end = "done" /\ Len(coll.seq.items) = 3
    /\ coll.pos = 3
    /\ coll.seqDone /\ ~coll.stopped
    /\ coll.result.ptr.kind = "bloom"

\* the records a file holds, in order
RecordsOf(fs, i) ==
    [k \in 1..(fs[i].n + IF fs[i].tail \in {"partial", "partialErr"}
                         THEN 1 ELSE 0) |-> <<i, k>>]

RECURSIVE RecordsUpTo(_, _)
\* the records of the first i files, in path order
RecordsUpTo(fs, i) ==
    IF i = 0 THEN <<>> ELSE RecordsUpTo(fs, i - 1) \o RecordsOf(fs, i)

HasMissing == \E i \in 1..Len(inp.fs) : ~inp.fs[i].exists

FirstMissing ==
    CHOOSE i \in 1..Len(inp.fs) :
        ~inp.fs[i].exists /\ \A j \in 1..(i - 1) : inp.fs[j].exists

\* a file that opens, reads to its end and closes without error
Healthy(f) ==
    f.exists /\ ~f.openErr /\ f.tail \in {"eof", "partial"} /\ ~f.closeErr

RunCompleted == inp.pc = "idle" /\ inp.ran

\* C18 as stated: a completed run over paths of which p_i is the first
\* that does not exist has yielded exactly the records of p_1..p_(i-1) in
\* path order, and Err() is non-nil.
C18_StopsAtMissingFile ==
    (RunCompleted /\ HasMissing) =>
        /\ inp.got = RecordsUpTo(inp.fs, FirstMissing - 1)
        /\ inp.last # NoErr

\* C18, amended: a completed run that its consumer did not stop, over paths
\* of which p_i is the first that does not exist and p_1..p_(i-1) open,
\* read and close without error, has yielded exactly the records of
\* p_1..p_(i-1) in path order, and Err() is the stat error of p_i.
C18_DrainedRunStopsAtMissingFile ==
    (/\ RunCompleted /\ HasMissing
     /\ ~inp.stopped
     /\ \A j \in 1..(FirstMissing - 1) : Healthy(inp.fs[j])) =>
        /\ inp.got = RecordsUpTo(inp.fs, FirstMissing - 1)
        /\ inp.last = statErr(FirstMissing)

\* C18 witness: a drained run over a two-line file, a missing file and
\* another two-line file has ended with the two records of the first file
\* and the stat error of the second path.
C18_Witness ==
    /\ RunCompleted
    /\ inp.fs = <<TwoLines, Missing, TwoLines>>
    /\ inp.stopAt = 0
    /\ inp.got = <<<<1, 1>>, <<1, 2>>>>
    /\ inp.last = statErr(2)

\* C19 as stated: when a run completes, Err() becomes the first error an
\* operation of that run returned, or nil when none did.
C19_ErrIsFirstErrorMet ==
    [][(inp.pc = "finish" /\ inp'.pc = "idle") => inp'.last = inp.met]_vars

\* C19, amended: when a run completes, Err() becomes the first error a
\* stage of that run returned (stat, open, Parse, Close), or nil when none
\* did, whatever Err() returned before the run.
C19_ErrIsFirstErrorReported ==
    [][(inp.pc = "finish" /\ inp'.pc = "idle") => inp'.last = inp.seen]_vars

\* C19 witness: Err() was the stat error of the second path when the run
\* started; the consumer stopped at the first record and Err() is nil.
C19_Witness ==
    /\ RunCompleted
    /\ inp.prev = statErr(2)
    /\ inp.stopAt = 1 /\ inp.stopped
    /\ inp.got = <<<<1, 1>>>>
    /\ inp.last = NoErr

\* the greatest number of elements Take(n) lets through
Quota == IF tk.n <= 0 THEN 0 ELSE tk.n

\* the first k elements the upstream yields
RECURSIVE FirstOf(_, _)
FirstOf(up, k) ==
    IF k = 0 THEN <<>> ELSE Append(FirstOf(up, k - 1), nextOf(up, k - 1))

\* C20: Take(n) hands downstream the first elements of the upstream in
\* order, min(n, length) of them by the time it returns unless the
\* consumer stops it before; it never pulls more than n elements, pulls
\* none once the n-th has been handed on, and for n <= 0 never starts the
\* upstream.
C20_TakePassesFirstN ==
    /\ [](/\ tk.out = FirstOf(tk.up, Len(tk.out))
          /\ tk.pulled = Len(tk.out)
          /\ tk.pulled <= Quota
          /\ tk.started = IF tk.n <= 0 \/ tk.pc = "idle" THEN 0 ELSE 1
          /\ (tk.pc = "done" /\ ~tk.downStopped) =>
                Len(tk.out) = IF tk.up.end = "loop" \/ Quota < Len(tk.up.items)
                              THEN Quota ELSE Len(tk.up.items)
          /\ (tk.pc = "done" /\ tk.downStopped) => Len(tk.out) = tk.stopAt)
    /\ [][Len(tk.out) >= tk.n => tk'.pulled = tk.pulled]_vars

\* C20 witness: Take(2) over an endless upstream has returned after handing
\* on two elements to a consumer that never stops, and pulled only those.
C20_Witness ==
    /\ tk.pc = "done"
    /\ tk.n = 2 /\ tk.stopAt = 0
    /\ tk.up.end = "loop" /\ Len(tk.up.items) = 3
    /\ tk.out = SubSeq(tk.up.items, 1, 2)
    /\ tk.pulled = 2

\* the table of a sketch has depth rows of width cells
TableShape(cms) ==
    /\ DOMAIN cms.table = 0..(cms.depth - 1)
    /\ \A row \in DOMAIN cms.table : DOMAIN cms.table[row] = 0..(cms.width - 1)

\* The table keeps depth rows of width cells, and no call changes width or
\* depth of a sketch.
TableKeepsShape ==
    /\ [](\A r \in Refs : IsCms(r) => TableShape(heap[r]))
    /\ [][\A r \in Refs : IsCms(r) =>
            /\ heap'[r].width = heap[r].width
            /\ heap'[r].depth = heap[r].depth]_vars

\* C21: the table keeps depth rows of width cells for the whole life of the
\* sketch, and no call other than Reset lowers a counter.
C21_CountersNeverDecrease ==
    /\ TableKeepsShape
    /\ [][\A r \in Refs : (IsCms(r) /\ ~IsReset(last'.op)) =>
            \A row \in DOMAIN heap[r].table :
                \A col \in DOMAIN heap[r].table[row] :
                    heap'[r].table[row][col] >= heap[r].table[row][col]]_vars

\* the number of 64-bit words that hold bitSize bits
WordsFor(bitSize) ==
    IF bitSize % 64 = 0 THEN bitSize \div 64 ELSE (bitSize \div 64) + 1

\* C22: the bit array of a filter has ceil(bitSize/64) words in every state,
\* bitSize never changes, and no call other than Reset clears a bit that is
\* set.
C22_BitsFixedAndSticky ==
    /\ [](\A r \in Refs : IsBloom(r) =>
            DOMAIN heap[r].bits = 0..(WordsFor(heap[r].bitSize) - 1))
    /\ [][\A r \in Refs : IsBloom(r) =>
            /\ heap'[r].bitSize = heap[r].bitSize
            /\ DOMAIN heap'[r].bits = DOMAIN heap[r].bits
            /\ ~IsReset(last'.op) =>
                 \A w \in DOMAIN heap[r].bits :
                     heap[r].bits[w] \subseteq heap'[r].bits[w]]_vars

\* C22 witness: a two-word filter that held bits in both words has just
\* taken in another filter by Merge and still holds them.
C22_Witness ==
    /\ last.op = "BloomFilter.Merge" /\ last.err = NoErr
    /\ last.recv # last.other
    /\ heap[last.recv].bitSize = 75
    /\ DOMAIN heap[last.recv].bits = {0, 1}
    /\ heap[last.recv].bits[0] # {} /\ heap[last.recv].bits[1] # {}
    /\ heap[last.other].bits[0] # heap[last.recv].bits[0]

\* every index the filter derives for a key is a bit of its array
BloomInRange(bf) ==
    \A k \in Keys : \A i \in 0..(bf.hashFuncs - 1) :
        LET index == hashIndex(bf, k, i)
        IN  /\ 0 <= index /\ index < bf.bitSize
            /\ index \div 64 \in DOMAIN bf.bits
            /\ index % 64 \in 0..63

\* every (row, column) the sketch derives for a key is a cell of its table
CmsInRange(cms) ==
    \A k \in Keys : \A row \in 0..(cms.depth - 1) :
        LET col == column(cms, k, row)
        IN  /\ row \in DOMAIN cms.table
            /\ 0 <= col /\ col < cms.width
            /\ col \in DOMAIN cms.table[row]

\* C23: in every state, for every key and round, the bit index a filter
\* derives lies in [0, bitSize) and its word within the array, and the
\* (row, column) a sketch derives lies within its table; a Merge that
\* succeeds reads only words and cells its operand has.
C23_IndexesInRange ==
    /\ [](\A r \in Refs :
            /\ IsBloom(r) => BloomInRange(heap[r])
            /\ IsCms(r) => CmsInRange(heap[r]))
    /\ [][(IsMerge(last'.op) /\ last'.err = NoErr) =>
            IF last'.op = "BloomFilter.Merge"
            THEN DOMAIN heap[last'.recv].bits
                   \subseteq DOMAIN heap[last'.other].bits
            ELSE \A row \in 0..(heap[last'.recv].depth - 1) :
                   /\ row \in DOMAIN heap[last'.other].table
                   /\ 0..(heap[last'.recv].width - 1)
                        \subseteq DOMAIN heap[last'.other].table[row]]_vars

\* C23 witness: a 75-bit filter with two rounds has taken an insert of a
\* key one of whose indexes falls in the second word of the array.
C23_Witness ==
    /\ last.op = "BloomFilter.AddBytes"
    /\ heap[last.recv].bitSize = 75 /\ heap[last.recv].hashFuncs = 2
    /\ \E k \in Keys, i \in 0..1 :
          /\ hist[last.recv].cnt[k] > 0
          /\ hashIndex(heap[last.recv], k, i) >= 64
          /\ hasBit(heap[last.recv], hashIndex(heap[last.recv], k, i))

\* C24: Add(key, 0) changes nothing: a call with count 0 leaves every
\* structure as it was, and in every state of a sketch the call would
\* return it unchanged for every key.
C24_AddZeroIsNoOp ==
    /\ [](\A r \in Refs : IsCms(r) =>
            \A k \in Keys : CountMinSketch_AddBytes(heap[r], k, 0) = heap[r])
    /\ [][(last'.op = "CountMinSketch.AddBytes" /\ last'.n1 = 0) =>
            /\ heap' = heap
            /\ hist' = hist]_vars

\* C24 witness: Add(key, 0) has just been called on a sketch that holds
\* counts.
C24_Witness ==
    /\ last.op = "CountMinSketch.AddBytes" /\ last.n1 = 0
    /\ heap[last.recv].total > 0
    /\ \E k \in Keys : CountMinSketch_EstimateBytes(heap[last.recv], k) > 0

RECURSIVE RowSum(_, _)
\* the sum of the first n counters of a row
RowSum(cells, n) ==
    IF n = 0 THEN 0 ELSE cells[n - 1] + RowSum(cells, n - 1)

\* C25: in every state, the counters of every row of a sketch sum to
\* TotalCount, and Estimate(k) <= TotalCount for every key.
C25_RowSumIsTotal ==
    \A r \in Refs : IsCms(r) =>
        /\ \A row \in DOMAIN heap[r].table :
              RowSum(heap[r].table[row], heap[r].width) = heap[r].total
        /\ \A k \in Keys :
              CountMinSketch_EstimateBytes(heap[r], k) <= heap[r].total

\* The counters of every row sum to TotalCount modulo 2^64.
RowSumIsTotalModulo ==
    \A r \in Refs : IsCms(r) =>
        \A row \in DOMAIN heap[r].table :
            RowSum(heap[r].table[row], heap[r].width) % Uint64Mod
                = heap[r].total

\* once the consumer has stopped a run, the run hands it no further record
\* and goes to no further path
NothingAfterStop ==
    [][(inp.stopped /\ inp.pc # "idle") =>
          /\ inp'.got = inp.got
          /\ inp'.idx = inp.idx
          /\ inp'.opens = inp.opens
          /\ inp'.pc \notin {"stat", "open", "read"}]_vars

\* no operation had returned an error when the consumer stopped the run:
\* after the stop only the Close of the file being read can return one
NoErrorUpToStop == inp.met \in {NoErr, closeErr(inp.idx)}

\* C27 as stated: once the consumer has stopped a run in which no error had
\* occurred, no record is yielded and no path is stat'ed or opened, and
\* Err() is nil after the run.
C27_EarlyStopLeavesErrNil ==
    /\ NothingAfterStop
    /\ []((RunCompleted /\ inp.stopped /\ NoErrorUpToStop) =>
            inp.last = NoErr)

\* C27, amended: once the consumer has stopped a run, no record is yielded
\* and no path is stat'ed or opened; Err() is nil after the run when no
\* error had occurred up to the stop and the Close of the file being read
\* returns none; it is that Close error otherwise.
C27_EarlyStopLeavesErrNilUnlessCloseFails ==
    /\ NothingAfterStop
    /\ []((RunCompleted /\ inp.stopped /\ NoErrorUpToStop) =>
            inp.last = IF inp.fs[inp.idx].closeErr
                       THEN closeErr(inp.idx) ELSE NoErr)

\* C27 witness: the consumer stopped at the first record of a two-line
\* file; the run has ended with that one record, one file opened, the
\* missing second path never reached, and Err() nil.
C27_Witness ==
    /\ RunCompleted
    /\ inp.fs = <<TwoLines, Missing>>
    /\ inp.stopAt = 1 /\ inp.stopped
    /\ inp.got = <<<<1, 1>>>>
    /\ inp.idx = 1 /\ inp.opens = 1
    /\ inp.srcLast = NoErr
    /\ inp.last = NoErr

\* C29: at most one file is open at any time, and it is the file of the
\* current path while it is read and until it is closed; a file is opened
\* only when every file opened before it has been closed; every Close
\* closes the one open file; and when the run leaves its loop and when it
\* ends, every file that was opened has been closed.
C29_FilesClosedOnce ==
    /\ [](/\ inp.closes <= inp.opens /\ inp.opens <= inp.closes + 1
          /\ inp.opens <= inp.idx
          /\ (inp.opens = inp.closes + 1) <=> (inp.pc \in {"read", "close"})
          /\ inp.pc \in {"sourceErr", "finish", "idle"} =>
                inp.opens = inp.closes)
    /\ [][/\ inp'.opens # inp.opens =>
               (inp.pc = "open" /\ inp.opens = inp.closes
                  /\ inp'.opens = inp.opens + 1)
             \/ (inp.pc = "idle" /\ inp'.opens = 0)
          /\ inp'.closes # inp.closes =>
               (inp.pc = "close" /\ inp.opens = inp.closes + 1
                  /\ inp'.closes = inp.closes + 1)
             \/ (inp.pc = "idle" /\ inp'.closes = 0)
          /\ inp.pc = "close" => inp'.closes = inp.closes + 1]_vars

\* C29 witness: a run has ended on the read error of its second file, after
\* the consumer took the records of both; both files were opened and both
\* closed.
C29_Witness ==
    /\ RunCompleted
    /\ inp.fs = <<TwoLines, ReadFails>>
    /\ inp.got = <<<<1, 1>>, <<1, 2>>, <<2, 1>>>>
    /\ inp.last = parseErr(2)
    /\ inp.opens = 2 /\ inp.closes = 2

\* C26: once the consumer's yield has answered false in a run of Filter,
\* Map, FlatMap or Distinct, the stage's Sequence function has returned,
\* and the run makes no further yield call and pulls no further element
\* from its upstream.
C26_StopPropagates ==
    /\ [](sg.downStopped =>
            /\ sg.pc = "done"
            /\ Len(sg.out) = sg.stopAt)
    /\ [][(sg.downStopped /\ sg'.runs = sg.runs) =>
            /\ sg'.out = sg.out
            /\ sg'.pulled = sg.pulled
            /\ sg'.pc = "done"]_vars

\* C26 witness: FlatMap over an endless upstream of 2s was stopped at the
\* first element of fn(2): one upstream element pulled, one yield call, and
\* the stage has returned.
C26_Witness ==
    /\ sg.stage.op = "FlatMap"
    /\ sg.up = [items |-> <<2>>, end |-> "loop"]
    /\ sg.stopAt = 1 /\ sg.downStopped
    /\ sg.pc = "done"
    /\ sg.pulled = 1
    /\ sg.out = <<21>>

RECURSIVE FirstOccurrences(_)
\* the values of a sequence, each at the place of its first occurrence
FirstOccurrences(items) ==
    IF items = <<>> THEN <<>>
    ELSE LET front == SubSeq(items, 1, Len(items) - 1)
             v == items[Len(items)]
         IN  IF \E i \in 1..Len(front) : front[i] = v
             THEN FirstOccurrences(front)
             ELSE Append(FirstOccurrences(front), v)

\* C28: in every state of a run of Distinct, the elements handed downstream
\* are the distinct values among the upstream elements pulled so far, each
\* once, in the order of their first occurrence; a run the consumer does
\* not stop ends with those of the whole upstream.
C28_DistinctFirstOccurrences ==
    (sg.stage.op = "Distinct") =>
        /\ sg.out = FirstOccurrences(FirstOf(sg.up, sg.pulled))
        /\ \A i, j \in 1..Len(sg.out) : sg.out[i] = sg.out[j] => i = j
        /\ (sg.pc = "done" /\ ~sg.downStopped) =>
              sg.out = FirstOccurrences(sg.up.items)

\* C28 witness: the second run of Distinct over 1, 2, 1, 2 has ended, not
\* stopped by its consumer, having handed on 1 and 2.
C28_Witness ==
    /\ sg.stage.op = "Distinct"
    /\ sg.up = [items |-> <<1, 2, 1, 2>>, end |-> "done"]
    /\ sg.runs = 2
    /\ sg.pc = "done" /\ ~sg.downStopped
    /\ sg.pulled = 4
    /\ sg.out = <<1, 2>>

BothFinished == Len(ov.fin) = 2

\* the run whose deferred Set was executed last
LastFinished == ov.run[ov.fin[Len(ov.fin)]]

\* Err() after both runs holds the runErr of the run that ended last, and
\* each run has written the slot once, when it ended.
LastWriterWins ==
    /\ \A g \in Goroutines :
          ov.sets[g] = IF \E i \in 1..Len(ov.fin) : ov.fin[i] = g
                       THEN 1 ELSE 0
    /\ BothFinished => ov.last = LastFinished.runErr

\* C30: after two overlapping runs have both finished, Err() is the outcome
\* of the run that finished last, that is the first error a stage of that
\* run returned, or nil when none did; each run has written the slot once,
\* at its end.
C30_ErrIsOutcomeOfLastRun ==
    /\ \A g \in Goroutines :
          ov.sets[g] = IF \E i \in 1..Len(ov.fin) : ov.fin[i] = g
                       THEN 1 ELSE 0
    /\ BothFinished => ov.last = LastFinished.seen

\* Err() after both runs differs from the outcome of the run that finished
\* last only when that run read, with files.Err(), the nil that the other
\* run's source had stored over its own stat error.
OnlySourceSlotLeaks ==
    (BothFinished /\ ov.last # LastFinished.seen) =>
        /\ LastFinished.srcRunErr # NoErr
        /\ LastFinished.seen = LastFinished.srcRunErr
        /\ ~LastFinished.stopped
        /\ ov.last = NoErr
        /\ \E g \in Goroutines : ov.run[g].stopped

====
